---- MODULE Spec2Model ----
(***************************************************************************)
(* Order pricing and renewal engine of the mavrykbot order bot:            *)
(*   handlers/renewal_logic.py  (webhook renewal, run_renewal)             *)
(*   handlers/update_order.py   (manual extension, extend_order)           *)
(*   handlers/add_order.py      (order creation conversation)              *)
(*   core/utils.py              (product-name and price normalisation)     *)
(*                                                                         *)
(* Text is a sequence of one-character strings, a date is a day number     *)
(* (days since 1970-01-01) and a stored multiplier is a number of          *)
(* hundredths (120 stands for Decimal("1.20")).  A nullable column is      *)
(* None (the empty sequence) or Some(v).                                   *)
(***************************************************************************)
EXTENDS Integers, Sequences, FiniteSets, TLC

None == <<>>
Some(v) == <<v>>
IsNone(x) == x = <<>>
Val(x) == x[1]

Max2(a, b) == IF a >= b THEN a ELSE b
Min2(a, b) == IF a <= b THEN a ELSE b

(***************************************************************************)
(* Characters and text                                                     *)
(***************************************************************************)
Digits == {"0", "1", "2", "3", "4", "5", "6", "7", "8", "9"}
UpperLetters == {"A", "C", "K", "L", "M", "S", "V", "X"}
LowerLetters == {"a", "c", "k", "l", "m", "s", "v", "x"}
\* U+2013 and U+2014, the two dash variants of the range U+2010..U+2015 kept here
EnDash == "u2013"
EmDash == "u2014"
DashVariants == {EnDash, EmDash}
SpaceChars == {" "}
WordChars == Digits \cup UpperLetters \cup LowerLetters \cup {"_"}

DigitVal(c) ==
    CASE c = "0" -> 0 [] c = "1" -> 1 [] c = "2" -> 2 [] c = "3" -> 3
      [] c = "4" -> 4 [] c = "5" -> 5 [] c = "6" -> 6 [] c = "7" -> 7
      [] c = "8" -> 8 [] c = "9" -> 9

LowerChar(c) ==
    CASE c = "A" -> "a" [] c = "C" -> "c" [] c = "K" -> "k" [] c = "L" -> "l"
      [] c = "M" -> "m" [] c = "S" -> "s" [] c = "V" -> "v" [] c = "X" -> "x"
      [] OTHER -> c

UpperChar(c) ==
    CASE c = "a" -> "A" [] c = "c" -> "C" [] c = "k" -> "K" [] c = "l" -> "L"
      [] c = "m" -> "M" [] c = "s" -> "S" [] c = "v" -> "V" [] c = "x" -> "X"
      [] OTHER -> c

Lower(s) == [i \in 1..Len(s) |-> LowerChar(s[i])]
Upper(s) == [i \in 1..Len(s) |-> UpperChar(s[i])]

StartsWith(s, p) == Len(s) >= Len(p) /\ SubSeq(s, 1, Len(p)) = p

\* first index j >= i with s[j] outside S (Len(s)+1 when there is none)
RECURSIVE SkipWhile(_, _, _)
SkipWhile(s, i, S) ==
    IF i > Len(s) \/ s[i] \notin S THEN i ELSE SkipWhile(s, i + 1, S)

\* int() of the decimal digits s[i..j]
RECURSIVE IntOf(_, _, _)
IntOf(s, i, j) ==
    IF j < i THEN 0 ELSE 10 * IntOf(s, i, j - 1) + DigitVal(s[j])

\* least i in lo..hi with P[i], 0 when there is none
RECURSIVE FirstIndex(_, _, _)
FirstIndex(P, lo, hi) ==
    IF lo > hi THEN 0 ELSE IF P[lo] THEN lo ELSE FirstIndex(P, lo + 1, hi)

(***************************************************************************)
(* core/utils.py normalize_product_duration                                *)
(***************************************************************************)
\* re.sub(r"[‐-―]", "-", text)
ReplaceDashVariants(s) ==
    [i \in 1..Len(s) |-> IF s[i] \in DashVariants THEN "-" ELSE s[i]]

\* a match of  -+\s*(\d+)\s*m\b  (re.I) starting at i: <<first digit, last digit, end>>
\* or <<>> when the pattern does not match at i
NormMatchAt(s, i) ==
    IF i > Len(s) \/ s[i] # "-" THEN <<>>
    ELSE LET a == SkipWhile(s, i, {"-"})
             b == SkipWhile(s, a, SpaceChars)
             c == SkipWhile(s, b, Digits)
             d == SkipWhile(s, c, SpaceChars)
         IN  IF c > b /\ d <= Len(s) /\ s[d] \in {"m", "M"}
                /\ (d = Len(s) \/ s[d + 1] \notin WordChars)
             THEN <<b, c - 1, d>>
             ELSE <<>>

\* re.sub(r"-+\s*(\d+)\s*m\b", r"--\1m", s, flags=re.I), scanning from i
RECURSIVE NormSub(_, _)
NormSub(s, i) ==
    IF i > Len(s) THEN <<>>
    ELSE LET m == NormMatchAt(s, i)
         IN  IF m = <<>> THEN <<s[i]>> \o NormSub(s, i + 1)
             ELSE <<"-", "-">> \o SubSeq(s, m[1], m[2]) \o <<"m">> \o NormSub(s, m[3] + 1)

normalize_product_duration(text) == NormSub(ReplaceDashVariants(text), 1)

(***************************************************************************)
(* Duration parsers of the three flows                                     *)
(***************************************************************************)
\* months -> days, the rule all three flows share
MonthsToDays(so_thang) == IF so_thang = 12 THEN 365 ELSE so_thang * 30

\* re.search(r"--(\d+)m", s): number of months of the leftmost match, None without one
AddMatchAt(s, i) ==
    IF i + 1 > Len(s) \/ s[i] # "-" \/ s[i + 1] # "-" THEN <<>>
    ELSE LET c == SkipWhile(s, i + 2, Digits)
         IN  IF c > i + 2 /\ c <= Len(s) /\ s[c] = "m"
             THEN <<IntOf(s, i + 2, c - 1)>>
             ELSE <<>>

\* add_order.extract_days_from_ma_sp
extract_days_from_ma_sp(ma_sp) ==
    LET s == Lower(ma_sp)
        k == FirstIndex([i \in 1..Len(s) |-> AddMatchAt(s, i) # <<>>], 1, Len(s))
    IN  IF k = 0 THEN 0 ELSE MonthsToDays(Val(AddMatchAt(s, k)))

\* add_order.xu_ly_ma_moi_handler: .replace("—", "--").replace("–", "--")
RECURSIVE ReplaceDashByDouble(_)
ReplaceDashByDouble(s) ==
    IF s = <<>> THEN <<>>
    ELSE (IF Head(s) \in DashVariants THEN <<"-", "-">> ELSE <<Head(s)>>)
         \o ReplaceDashByDouble(Tail(s))

\* re.search(r"--\s*(\d+)\s*m", s, flags=re.I) at i
RenewMatchAt(s, i) ==
    IF i + 1 > Len(s) \/ s[i] # "-" \/ s[i + 1] # "-" THEN <<>>
    ELSE LET b == SkipWhile(s, i + 2, SpaceChars)
             c == SkipWhile(s, b, Digits)
             d == SkipWhile(s, c, SpaceChars)
         IN  IF c > b /\ d <= Len(s) /\ s[d] \in {"m", "M"}
             THEN <<IntOf(s, b, c - 1)>>
             ELSE <<>>

\* a faulty parser that takes a name without a duration for a one-month product
RenewalDaysOrOneMonth(san_pham) == Some(30)

\* renewal_logic.run_renewal lines 234-240: None when no duration pattern, else Some(days)
RenewalDays(san_pham) ==
    LET s == normalize_product_duration(san_pham)
        k == FirstIndex([i \in 1..Len(s) |-> RenewMatchAt(s, i) # <<>>], 1, Len(s))
    IN  IF k = 0 THEN None ELSE Some(MonthsToDays(Val(RenewMatchAt(s, k))))

\* update_order.extend_order lines 584-591 (same normalisation and pattern)
ExtendDays(san_pham) ==
    LET s == normalize_product_duration(san_pham)
        k == FirstIndex([i \in 1..Len(s) |-> RenewMatchAt(s, i) # <<>>], 1, Len(s))
    IN  IF k = 0 THEN None
        ELSE LET so_thang == Val(RenewMatchAt(s, k))
             IN  Some(IF so_thang = 12 THEN 365 ELSE so_thang * 30)

(***************************************************************************)
(* Calendar: datetime/date values, strftime/strptime and relativedelta     *)
(***************************************************************************)
IsLeap(y) == (y % 4 = 0 /\ y % 100 # 0) \/ y % 400 = 0

DaysInMonth(y, m) ==
    IF m = 2 THEN (IF IsLeap(y) THEN 29 ELSE 28)
    ELSE IF m \in {4, 6, 9, 11} THEN 30 ELSE 31

\* day number of the civil date y-m-d
DaysFromCivil(y, m, d) ==
    LET yy  == IF m <= 2 THEN y - 1 ELSE y
        era == yy \div 400
        yoe == yy - era * 400
        mp  == IF m > 2 THEN m - 3 ELSE m + 9
        doy == (153 * mp + 2) \div 5 + d - 1
        doe == yoe * 365 + yoe \div 4 - yoe \div 100 + doy
    IN  era * 146097 + doe - 719468

\* civil date <<y, m, d>> of a day number
CivilFromDays(n) ==
    LET z   == n + 719468
        era == z \div 146097
        doe == z - era * 146097
        yoe == (doe - doe \div 1460 + doe \div 36524 - doe \div 146096) \div 365
        doy == doe - (365 * yoe + yoe \div 4 - yoe \div 100)
        mp  == (5 * doy + 2) \div 153
        d   == doy - (153 * mp + 2) \div 5 + 1
        m   == IF mp < 10 THEN mp + 3 ELSE mp - 9
        y   == yoe + era * 400
    IN  <<IF m <= 2 THEN y + 1 ELSE y, m, d>>

ValidYMD(y, m, d) ==
    /\ y \in 1..9999 /\ m \in 1..12 /\ d >= 1 /\ d <= DaysInMonth(y, m)

\* strftime("%d/%m/%Y"): the text dd/mm/YYYY as its three fields
FormatDMY(day) == LET c == CivilFromDays(day) IN <<c[3], c[2], c[1]>>
\* strftime("%Y/%m/%d")
FormatYMD(day) == CivilFromDays(day)
\* strptime(text, "%d/%m/%Y"): Some(day number), None when the text is no date
ParseDMY(t) ==
    IF Len(t) = 3 /\ ValidYMD(t[3], t[2], t[1])
    THEN Some(DaysFromCivil(t[3], t[2], t[1])) ELSE None
\* the database parsing a 'YYYY/MM/DD' literal into its date column
ParseYMD(t) ==
    IF Len(t) = 3 /\ ValidYMD(t[1], t[2], t[3])
    THEN Some(DaysFromCivil(t[1], t[2], t[3])) ELSE None

\* date + relativedelta(years, months, days): years and months first, the day
\* clipped to the length of the target month, then the day offset
AddRelativeDelta(day, years, months, days) ==
    LET c  == CivilFromDays(day)
        mm == (c[2] - 1) + months
        y  == c[1] + years + mm \div 12
        m  == (mm % 12) + 1
        d  == Min2(c[3], DaysInMonth(y, m))
    IN  DaysFromCivil(y, m, d) + days

\* add_order.tinh_ngay_het_han (calendar decomposition); None is the failure sentinel
add_tinh_ngay_het_han(ngay_bat_dau_str, so_ngay_dang_ky) ==
    LET start == ParseDMY(ngay_bat_dau_str)
    IN  IF IsNone(start) THEN None
        ELSE LET tong_ngay       == so_ngay_dang_ky
                 so_nam          == tong_ngay \div 365
                 so_ngay_con_lai == tong_ngay % 365
                 so_thang        == so_ngay_con_lai \div 30
                 so_ngay_du      == so_ngay_con_lai % 30
             IN  Some(AddRelativeDelta(Val(start), so_nam, so_thang, so_ngay_du - 1))

\* renewal_logic.tinh_ngay_het_han (flat offset): formatted text, <<>> for ""
renewal_tinh_ngay_het_han(ngay_dang_ky_str, so_ngay) ==
    LET start == ParseDMY(ngay_dang_ky_str)
    IN  IF IsNone(start) THEN <<>> ELSE FormatDMY(Val(start) + so_ngay)

(***************************************************************************)
(* Rounding helpers                                                        *)
(***************************************************************************)
\* add_order._round_thousand
round_thousand(value) ==
    IF value <= 0 THEN 0 ELSE ((value + 999) \div 1000) * 1000

\* update_order._round_up_to_thousand
round_up_to_thousand(value) ==
    IF value <= 0 THEN 0 ELSE ((value + 999) \div 1000) * 1000

\* renewal_logic._round_to_thousands
round_to_thousands(value) ==
    LET numeric   == value
        remainder == numeric % 1000
    IN  IF numeric = 0 THEN 0
        ELSE IF remainder = 0 THEN numeric
        ELSE IF remainder >= 500 THEN numeric + (1000 - remainder)
        ELSE numeric - remainder

\* int() of the Decimal a/b: truncation toward zero
TruncDiv(a, b) == IF a >= 0 THEN a \div b ELSE -((-a) \div b)

\* int() of the Decimal (x*k)/d for x, k >= 0, the product taken in two parts so
\* that no intermediate value leaves the 32-bit integers of the model checker
MulDivTrunc(x, k, d) == (x \div d) * k + ((x % d) * k) \div d

\* core/utils.chuan_hoa_gia(...)[1] on a stored integer price
chuan_hoa_gia(gia) ==
    LET number == IF gia < 0 THEN -gia ELSE gia
    IN  IF number < 5000 THEN number * 1000 ELSE number

(***************************************************************************)
(* Bounds and input sets                                                   *)
(***************************************************************************)
\* writing operations (renewal calls, extensions, insertions) per behaviour
MaxOps == 2
\* days the clock may advance
MaxDays == 1

MAVC == <<"M", "A", "V", "C">>
MAVK == <<"M", "A", "V", "K">>
MAVL == <<"M", "A", "V", "L">>
MAVX == <<"M", "A", "V", "X">>
Prefixes == {MAVC, MAVK, MAVL, MAVX}

\* product names: one, twelve and zero months, one without a duration, and a
\* two-month one with "-1m" in its name
P1M  == <<"a", "-", "-", "1", "m">>
P2M  == <<"a", "-", "1", "m", "-", "-", "2", "m">>
P12M == <<"a", "-", "-", "1", "2", "m">>
P0M  == <<"a", "-", "-", "0", "m">>
PNONE == <<"a">>

\* the supply table (id -> source_name); no operation of the bot writes it
SupplyIds == {1, 2}
SupplyTable == [i \in SupplyIds |-> IF i = 1 THEN <<"s", "1">> ELSE <<"s", "2">>]
\* supplier names as stored on orders: the first supplier in another letter
\* case, and a name the supply table does not know
NguonS1 == <<"S", "1">>
NguonUnknown == <<"s", "x">>

ProductIds == {1, 2}
DbIds == {1, 2}

UNPAID == "Chua Thanh Toan"
PAID == "Da Thanh Toan"

\* the first day of every behaviour: 2024-01-27
Day0 == DaysFromCivil(2024, 1, 27)
ExpiryOffsets == {-40, 5, 10}

VARIABLES
    order_list,      \* order_list table: id -> None | Some(row)
    product_price,   \* product_price table: id -> None | Some([san_pham, pct_ctv, pct_khach])
    supply_price,    \* supply_price table: <<product id, source id>> -> None | Some(price)
    now,             \* datetime.now(): [day, hour]
    add_data,        \* context.user_data of the add-order conversation
    upd_data,        \* context.user_data of the update-order conversation
    last,            \* the last operation: its argument, result and the table before it
    prev,            \* the operation before the last one
    nops,            \* operations performed
    probe,           \* argument and results of the pure helper functions
    webhook          \* the payment webhook: requests answered and worker threads running

vars == <<order_list, product_price, supply_price, now, add_data, upd_data,
          last, prev, nops, probe, webhook>>

(***************************************************************************)
(* renewal_logic.py                                                        *)
(***************************************************************************)
\* a faulty _parse_date that takes a missing date for the first day
parse_date_or_default(value) == IF value = None THEN Some(Day0) ELSE value

\* _parse_date on a value of the het_han column (a date or NULL)
parse_date(value) == value

\* _fetch_order: WHERE id_don_hang = %s (exact match), first row
fetch_order(order_id) ==
    LET ids == {i \in DbIds : order_list[i] # None /\ Val(order_list[i]).ma_don = order_id}
    IN  IF ids = {} THEN None
        ELSE order_list[CHOOSE i \in ids : \A j \in ids : i <= j]

\* _get_product_record: LOWER(san_pham) = LOWER(%s) LIMIT 1 -> Some(<<id, pct_ctv, pct_khach>>)
get_product_record(san_pham) ==
    LET ids == {p \in ProductIds : product_price[p] # None
                    /\ Lower(Val(product_price[p]).san_pham) = Lower(san_pham)}
    IN  IF ids = {} THEN None
        ELSE LET p == CHOOSE i \in ids : \A j \in ids : i <= j
             IN  Some(<<p, Val(product_price[p]).pct_ctv, Val(product_price[p]).pct_khach>>)

\* _get_source_id
get_source_id(source_name) ==
    IF source_name = <<>> THEN None
    ELSE LET ids == {i \in SupplyIds : Lower(SupplyTable[i]) = Lower(source_name)}
         IN  IF ids = {} THEN None ELSE Some(CHOOSE i \in ids : \A j \in ids : i <= j)

\* a faulty _get_source_price that reads the best price of the product
get_source_price_of_any_source(product_id, source_id) ==
    IF IsNone(product_id) \/ IsNone(source_id) THEN None
    ELSE LET ps == {Val(supply_price[<<Val(product_id), i>>]) :
                       i \in {j \in SupplyIds : supply_price[<<Val(product_id), j>>] # None}}
         IN  IF ps = {} THEN None ELSE Some(CHOOSE x \in ps : \A y \in ps : x >= y)

\* _get_source_price
get_source_price(product_id, source_id) ==
    IF IsNone(product_id) \/ IsNone(source_id) THEN None
    ELSE supply_price[<<Val(product_id), Val(source_id)>>]

\* SELECT MAX(price) FROM supply_price WHERE product_id = %s  (NULL without a price)
MaxPrice(product_id) ==
    LET ps == {Val(supply_price[<<product_id, i>>]) :
                   i \in {j \in SupplyIds : supply_price[<<product_id, j>>] # None}}
    IN  IF ps = {} THEN None ELSE Some(CHOOSE x \in ps : \A y \in ps : x >= y)

\* _get_highest_price
get_highest_price(product_id) ==
    IF IsNone(product_id) THEN None ELSE MaxPrice(Val(product_id))

\* _calc_gia_ban; pct_ctv and pct_khach in hundredths
calc_gia_ban(order_id, highest_price, pct_ctv, pct_khach, gia_nhap) ==
    LET ma == Upper(order_id)
        tier == IF highest_price # None /\ Val(highest_price) > 0
                THEN (IF StartsWith(ma, MAVC)
                      THEN TruncDiv(Val(highest_price) * pct_ctv, 100)
                      ELSE IF StartsWith(ma, MAVL)
                      THEN MulDivTrunc(Val(highest_price) * pct_ctv, pct_khach, 10000)
                      ELSE gia_nhap)
                ELSE gia_nhap
        gia_ban == IF StartsWith(ma, MAVK) THEN gia_nhap ELSE tier
    IN  ((gia_ban + 999) \div 1000) * 1000

\* a faulty day count that finds every order due
DaysLeftAlwaysDue(het_han, clock) == 0

\* (het_han_dt - today).days with het_han_dt at 00:00 of the expiry date
DaysLeft(het_han, clock) == ((het_han - clock.day) * 24 - clock.hour) \div 24

\* a faulty error result that reports success
ErrorRetAsSuccess(reason) == <<TRUE, [text |-> reason], "error">>

\* return False, <message>, "error"
ErrorRet(reason) == <<FALSE, [text |-> reason], "error">>

\* run_renewal from the price computation on (lines 242-299), with the product
\* record and the supplier's price already looked up
renew_priced(order_id, row, het_han_dt, so_ngay_gia_han, gia_nhap_raw, gia_ban_raw, ngay_bat_dau_moi, ngay_het_han_moi) ==
    [ret |-> <<TRUE,
               [ID_DON_HANG |-> order_id, SAN_PHAM |-> row.san_pham,
                NGAY_DANG_KY |-> ngay_bat_dau_moi, HET_HAN |-> ngay_het_han_moi,
                NGUON |-> row.nguon, GIA_NHAP |-> round_to_thousands(gia_nhap_raw),
                GIA_BAN |-> round_to_thousands(gia_ban_raw), TINH_TRANG |-> UNPAID],
               "renewal">>,
     update |-> Some([ngay_dang_ki |-> ParseYMD(FormatYMD(het_han_dt + 1)),
                      so_ngay |-> so_ngay_gia_han,
                      het_han |-> ParseYMD(FormatYMD(
                                     IF ParseDMY(ngay_het_han_moi) # None
                                     THEN Val(ParseDMY(ngay_het_han_moi))
                                     ELSE het_han_dt + 1 + so_ngay_gia_han)),
                      gia_nhap |-> round_to_thousands(gia_nhap_raw),
                      gia_ban |-> round_to_thousands(gia_ban_raw),
                      tinh_trang |-> UNPAID,
                      check_flag |-> "FALSE"])]

\* lines 253-264: final_gia_nhap, final_gia_ban and the new dates
renew_with_prices(order_id, row, het_han_dt, so_ngay_gia_han, pct_ctv, pct_khach, gia_nhap_raw, highest_price) ==
    renew_priced(order_id, row, het_han_dt, so_ngay_gia_han, gia_nhap_raw,
                 calc_gia_ban(order_id, highest_price, pct_ctv, pct_khach, gia_nhap_raw),
                 FormatDMY(het_han_dt + 1),
                 renewal_tinh_ngay_het_han(FormatDMY(het_han_dt + 1), so_ngay_gia_han))

\* lines 242-255: multipliers (1.0 for NULL or no record), the supplier's price
\* (else chuan_hoa_gia of the previous import price) and the highest price
renew_with_product(order_id, row, het_han_dt, so_ngay_gia_han, product_id, pct_ctv, pct_khach, gia_nhap_source) ==
    renew_with_prices(order_id, row, het_han_dt, so_ngay_gia_han,
                      IF IsNone(pct_ctv) THEN 100 ELSE Val(pct_ctv),
                      IF IsNone(pct_khach) THEN 100 ELSE Val(pct_khach),
                      IF gia_nhap_source # None THEN Val(gia_nhap_source)
                      ELSE chuan_hoa_gia(row.gia_nhap),
                      get_highest_price(product_id))

renew_with_record(order_id, row, het_han_dt, so_ngay_gia_han, product_record) ==
    IF IsNone(product_record)
    THEN renew_with_product(order_id, row, het_han_dt, so_ngay_gia_han, None, None, None,
                            get_source_price(None, get_source_id(row.nguon)))
    ELSE renew_with_product(order_id, row, het_han_dt, so_ngay_gia_han,
                            Some(Val(product_record)[1]), Val(product_record)[2],
                            Val(product_record)[3],
                            get_source_price(Some(Val(product_record)[1]),
                                             get_source_id(row.nguon)))

\* lines 234-240: the duration of the renewal
renew_eligible(order_id, row, het_han_dt, days) ==
    IF IsNone(days) THEN [ret |-> ErrorRet("no duration in product"), update |-> None]
    ELSE renew_with_record(order_id, row, het_han_dt, Val(days),
                           get_product_record(row.san_pham))

\* lines 224-232: the expiry date and the eligibility test
renew_row(order_id, row, het_han_dt) ==
    IF IsNone(het_han_dt) THEN [ret |-> ErrorRet("invalid expiry date"), update |-> None]
    ELSE IF DaysLeft(Val(het_han_dt), now) > 4
    THEN [ret |-> <<FALSE, [text |-> "skipped"], "skipped">>, update |-> None]
    ELSE renew_eligible(order_id, row, Val(het_han_dt), RenewalDays(row.san_pham))

renew_fetched(order_id, order_row) ==
    IF IsNone(order_row) THEN [ret |-> ErrorRet("order not found"), update |-> None]
    ELSE renew_row(order_id, Val(order_row), parse_date(Val(order_row).het_han))

\* run_renewal: [ret |-> the returned tuple, update |-> the columns of the UPDATE]
run_renewal(order_id) ==
    IF order_id = <<>> THEN [ret |-> ErrorRet("empty order id"), update |-> None]
    ELSE renew_fetched(order_id, fetch_order(order_id))

\* _update_order: one UPDATE of seven columns WHERE id_don_hang = %s
update_order(ol, order_id, u) ==
    [i \in DbIds |->
        IF ol[i] # None /\ Val(ol[i]).ma_don = order_id
        THEN Some([Val(ol[i]) EXCEPT !.ngay_dang_ki = u.ngay_dang_ki,
                                      !.so_ngay = u.so_ngay,
                                      !.het_han = u.het_han,
                                      !.gia_nhap = u.gia_nhap,
                                      !.gia_ban = u.gia_ban,
                                      !.tinh_trang = u.tinh_trang,
                                      !.check_flag = u.check_flag])
        ELSE ol[i]]

Record(op, arg, ret) ==
    /\ last' = [op |-> op, arg |-> arg, ret |-> ret, before |-> order_list, clock |-> now]
    /\ prev' = [op |-> last.op, arg |-> last.arg, kind |-> last.ret[3],
                before |-> last.before, clock |-> last.clock]

\* a webhook worker calls run_renewal(order_id)
renewal_result(order_id, r) ==
    /\ order_list' = IF IsNone(r.update) THEN order_list
                     ELSE update_order(order_list, order_id, Val(r.update))
    /\ Record("run_renewal", order_id, r.ret)

RunRenewal(order_id) ==
    /\ nops < MaxOps
    /\ renewal_result(order_id, run_renewal(order_id))
    /\ nops' = nops + 1
    /\ UNCHANGED <<product_price, supply_price, now, add_data, upd_data, probe, webhook>>

\* the database calls of run_renewal, in the order it makes them: db.fetch_one in
\* _fetch_order, _get_product_record, _get_source_id, _get_source_price and
\* _get_highest_price, db.execute in _update_order
DbCalls == {"fetch_order", "get_product_record", "get_source_id", "get_source_price", "get_highest_price", "update_order"}

\* run_renewal(order_id) reaches the price computation (line 242): r is its
\* outcome when every call is answered
renewal_prices_row(order_id, r) == order_id # <<>> /\ r.update # None

\* whether run_renewal makes the call once the price computation is reached:
\* _get_source_id asks only for a non-empty name, _get_source_price only with a
\* product and a supplier id, _get_highest_price only with a product id
price_call_made(call, row, product_record) ==
    CASE call = "get_product_record" -> TRUE
      [] call = "get_source_id" -> row.nguon # <<>>
      [] call = "get_source_price" -> product_record # None /\ get_source_id(row.nguon) # None
      [] call = "get_highest_price" -> product_record # None
      [] call = "update_order" -> TRUE
      [] OTHER -> FALSE

\* whether run_renewal(order_id) makes the database call, all earlier calls answered
call_made(order_id, call) ==
    IF call = "fetch_order" THEN order_id # <<>>
    ELSE /\ renewal_prices_row(order_id, run_renewal(order_id))
         /\ price_call_made(call, Val(fetch_order(order_id)),
                            get_product_record(Val(fetch_order(order_id)).san_pham))

\* a faulty failure path in which the UPDATE that raised has been applied
run_renewal_failing_after_write(order_id, call) ==
    [ret |-> <<FALSE, [text |-> call], "error">>, update |-> run_renewal(order_id).update]

\* run_renewal(order_id) when the database call fails (db raises): only the UPDATE
\* is inside try/except (lines 271-284) and gives the error result; the exception
\* of any other call leaves run_renewal, which then returns nothing (kind
\* "raised").  A failed statement writes nothing.
run_renewal_failing(order_id, call) ==
    IF call = "update_order"
    THEN [ret |-> <<FALSE, [text |-> call], "error">>, update |-> None]
    ELSE [ret |-> <<FALSE, [text |-> call], "raised">>, update |-> None]

failing_result(order_id, r) ==
    /\ order_list' = IF IsNone(r.update) THEN order_list
                     ELSE update_order(order_list, order_id, Val(r.update))
    /\ Record("run_renewal_db_failure", order_id, r.ret)

\* a call of run_renewal(order_id) during which the database call fails
RunRenewalFailing(order_id, call) ==
    /\ nops < MaxOps
    /\ call_made(order_id, call)
    /\ failing_result(order_id, run_renewal_failing(order_id, call))
    /\ nops' = nops + 1
    /\ UNCHANGED <<product_price, supply_price, now, add_data, upd_data, probe, webhook>>

\* the clock: 00:00 -> 10:00 -> 00:00 of the next day, while an operation can follow
Tick ==
    /\ nops < MaxOps
    /\ \/ now.hour = 0 /\ now' = [now EXCEPT !.hour = 10]
       \/ now.hour = 10 /\ now.day < Day0 + MaxDays
          /\ now' = [day |-> now.day + 1, hour |-> 0]
    /\ UNCHANGED <<order_list, product_price, supply_price, add_data, upd_data,
                   last, prev, nops, probe, webhook>>

(***************************************************************************)
(* update_order.py: search and manual extension                            *)
(***************************************************************************)
\* _parse_positive_int
parse_positive_int(value) == Max2(value, 0)

\* _build_order: the cached OrderRecord of a row
build_order(db_id, row) ==
    [db_id |-> db_id, ma_don |-> row.ma_don, san_pham |-> row.san_pham,
     ngay_dang_ky |-> row.ngay_dang_ki, so_ngay |-> parse_positive_int(row.so_ngay),
     het_han |-> row.het_han, nguon |-> row.nguon,
     gia_nhap |-> parse_positive_int(row.gia_nhap),
     gia_ban |-> parse_positive_int(row.gia_ban)]

\* the ids of S in descending order
RECURSIVE DescSeq(_)
DescSeq(S) ==
    IF S = {} THEN <<>>
    ELSE LET m == CHOOSE x \in S : \A y \in S : x >= y
         IN  <<m>> \o DescSeq(S \ {m})

\* _query_orders_by_id: LOWER(id_don_hang) = LOWER(%s) ORDER BY id DESC
query_orders_by_id(search_term) ==
    LET ids == {i \in DbIds : order_list[i] # None
                    /\ Lower(Val(order_list[i]).ma_don) = Lower(search_term)}
        ord == DescSeq(ids)
    IN  [k \in 1..Len(ord) |-> build_order(ord[k], Val(order_list[ord[k]]))]

UpdIdle == [state |-> "END", matched_orders |-> <<>>, current_match_index |-> 0]

\* start_update_order, select_check_mode ("mode_id") and input_value_handler
InputValue(search_term) ==
    /\ upd_data.state = "END"
    /\ LET matched == query_orders_by_id(search_term)
       IN  upd_data' = IF matched = <<>> THEN UpdIdle
                       ELSE [state |-> "SELECT_ACTION", matched_orders |-> matched,
                             current_match_index |-> 0]
    /\ UNCHANGED <<order_list, product_price, supply_price, now, add_data, last, prev,
                   nops, probe, webhook>>

\* cancel_update -> end_update: context.user_data.clear()
CancelUpdate ==
    /\ upd_data.state # "END"
    /\ upd_data' = UpdIdle
    /\ UNCHANGED <<order_list, product_price, supply_price, now, add_data,
                   last, prev, nops, probe, webhook>>

\* _find_order_by_ma: index of the first cached record with that code, 0 without one
find_order_by_ma(orders, ma_don) ==
    FirstIndex([k \in 1..Len(orders) |-> Lower(orders[k].ma_don) = Lower(ma_don)],
               1, Len(orders))

\* _lookup_product_profile
lookup_product_profile(product_name) ==
    LET ids == {p \in ProductIds : product_price[p] # None
                    /\ Lower(Val(product_price[p]).san_pham) = Lower(product_name)}
    IN  IF ids = {} THEN None
        ELSE LET p == CHOOSE i \in ids : \A j \in ids : i <= j
             IN  Some(<<p, Val(product_price[p]).pct_ctv, Val(product_price[p]).pct_khach>>)

\* _lookup_source_price: supply_price JOIN supply ON LOWER(source_name) = LOWER(%s)
lookup_source_price(product_id, source_name) ==
    LET ids == {i \in SupplyIds : Lower(SupplyTable[i]) = Lower(source_name)
                    /\ supply_price[<<product_id, i>>] # None}
    IN  IF ids = {} THEN None
        ELSE supply_price[<<product_id, CHOOSE i \in ids : \A j \in ids : i <= j>>]

\* _lookup_highest_price: int(row[0]) if row and row[0] else 0
lookup_highest_price(product_id) ==
    IF IsNone(MaxPrice(product_id)) THEN 0 ELSE Val(MaxPrice(product_id))

\* Decimal(str(pct or 1)) in hundredths
PctOrOne(pct) == IF IsNone(pct) \/ Val(pct) = 0 THEN 100 ELSE Val(pct)

\* lines 617-625: the sale price from the highest price (the previous sale price
\* without one, or for an unknown prefix)
extend_gia_ban(order, highest_price, pct_ctv, pct_khach, gia_nhap_moi) ==
    IF highest_price > 0
    THEN (IF StartsWith(Upper(order.ma_don), MAVC)
          THEN TruncDiv(highest_price * pct_ctv, 100)
          ELSE IF StartsWith(Upper(order.ma_don), MAVL)
          THEN MulDivTrunc(highest_price * pct_ctv, pct_khach, 10000)
          ELSE IF StartsWith(Upper(order.ma_don), MAVK)
          THEN gia_nhap_moi
          ELSE order.gia_ban)
    ELSE order.gia_ban

\* lines 612-628 for a product the catalogue has
extend_with_profile(order, product_id, pct_ctv, pct_khach, nguon_price) ==
    <<round_up_to_thousand(IF nguon_price # None /\ Val(nguon_price) > 0
                           THEN Val(nguon_price) ELSE order.gia_nhap),
      round_up_to_thousand(
          extend_gia_ban(order, lookup_highest_price(product_id), pct_ctv, pct_khach,
                         IF nguon_price # None /\ Val(nguon_price) > 0
                         THEN Val(nguon_price) ELSE order.gia_nhap))>>

extend_prices_for(order, product_profile) ==
    IF IsNone(product_profile)
    THEN <<round_up_to_thousand(order.gia_nhap), round_up_to_thousand(order.gia_ban)>>
    ELSE extend_with_profile(order, Val(product_profile)[1],
                             PctOrOne(Val(product_profile)[2]),
                             PctOrOne(Val(product_profile)[3]),
                             lookup_source_price(Val(product_profile)[1], order.nguon))

\* the price part of extend_order (lines 603-628): <<gia_nhap_moi, gia_ban_moi>>
extend_prices(order) == extend_prices_for(order, lookup_product_profile(order.san_pham))

extend_columns(order, so_ngay, start_dt, ngay_het_han_moi, prices) ==
    IF IsNone(ngay_het_han_moi) THEN None
    ELSE Some([ngay_dang_ki |-> Some(start_dt), so_ngay |-> so_ngay,
               het_han |-> ngay_het_han_moi,
               gia_nhap |-> prices[1], gia_ban |-> prices[2]])

\* a faulty extension that starts the new period on the old expiry date
extend_order_from_expiry(order, days) == IF IsNone(days) \/ IsNone(order.het_han) THEN None ELSE extend_columns(order, Val(days), Val(order.het_han), add_tinh_ngay_het_han(FormatDMY(Val(order.het_han)), Val(days)), extend_prices(order))

\* lines 584-601: the duration, the start and the expiry of the new period
extend_order_for(order, days) ==
    IF IsNone(days) \/ IsNone(order.het_han) THEN None
    ELSE extend_columns(order, Val(days), Val(order.het_han) + 1,
                        add_tinh_ngay_het_han(FormatDMY(Val(order.het_han) + 1), Val(days)),
                        extend_prices(order))

\* extend_order up to its UPDATE: None when the handler gives up, else Some(columns)
extend_order(order) == extend_order_for(order, ExtendDays(order.san_pham))

\* lines 630-662: the UPDATE ... WHERE id = %s and the refresh of the cached record
extend_write(ma_don, k, db_id, c) ==
    /\ order_list' =
           [order_list EXCEPT ![db_id] =
               IF order_list[db_id] = None THEN None
               ELSE Some([Val(order_list[db_id]) EXCEPT
                              !.ngay_dang_ki = c.ngay_dang_ki,
                              !.so_ngay = c.so_ngay,
                              !.het_han = c.het_han,
                              !.gia_nhap = c.gia_nhap,
                              !.gia_ban = c.gia_ban])]
    /\ upd_data' = [upd_data EXCEPT
                       !.matched_orders[k].ngay_dang_ky = c.ngay_dang_ki,
                       !.matched_orders[k].so_ngay = c.so_ngay,
                       !.matched_orders[k].het_han = c.het_han,
                       !.matched_orders[k].gia_nhap = c.gia_nhap,
                       !.matched_orders[k].gia_ban = c.gia_ban]
    /\ Record("extend_order", ma_don, <<TRUE, [text |-> "extended"], "extended">>)

extend_result(ma_don, k, db_id, u) ==
    IF IsNone(u)
    THEN /\ upd_data' = UpdIdle
         /\ order_list' = order_list
         /\ Record("extend_order", ma_don, <<FALSE, [text |-> "alert"], "error">>)
    ELSE extend_write(ma_don, k, db_id, Val(u))

extend_found(matched, ma_don, k) ==
    extend_result(ma_don, k, IF k = 0 THEN 0 ELSE matched[k].db_id,
                  IF k = 0 THEN None ELSE extend_order(matched[k]))

\* the "Gia han" button of the order on display
ExtendOrder ==
    /\ nops < MaxOps
    /\ upd_data.state = "SELECT_ACTION"
    /\ extend_found(upd_data.matched_orders,
                    upd_data.matched_orders[upd_data.current_match_index + 1].ma_don,
                    find_order_by_ma(upd_data.matched_orders,
                        upd_data.matched_orders[upd_data.current_match_index + 1].ma_don))
    /\ nops' = nops + 1
    /\ UNCHANGED <<product_price, supply_price, now, add_data, probe, webhook>>

(***************************************************************************)
(* add_order.py: the order creation conversation                           *)
(***************************************************************************)
RECURSIVE Pow10(_)
Pow10(n) == IF n = 0 THEN 1 ELSE 10 * Pow10(n - 1)

AllDigits(s) == \A i \in 1..Len(s) : s[i] \in Digits

\* _parse_price on a text of digits with at most one decimal point; -1 on failure
\* (float arithmetic taken as exact)
parse_price(s) ==
    LET dot == FirstIndex([i \in 1..Len(s) |-> s[i] \in {".", ","}], 1, Len(s))
    IN  IF s = <<>> THEN -1
        ELSE IF dot = 0
        THEN (IF AllDigits(s) THEN round_thousand(IntOf(s, 1, Len(s)) * 1000) ELSE -1)
        ELSE LET ip == SubSeq(s, 1, dot - 1)
                 dp == SubSeq(s, dot + 1, Len(s))
             IN  IF AllDigits(ip) /\ AllDigits(dp)
                 THEN round_thousand(IntOf(ip, 1, Len(ip)) * 1000
                                     + (IntOf(dp, 1, Len(dp)) * 1000) \div Pow10(Len(dp)))
                 ELSE -1

\* the seven random characters of generate_unique_id
\* secrets.choice seven times: any seven characters, two of them here
RandomParts == {[i \in 1..7 |-> "7"], [i \in 1..7 |-> "1"]}

\* core/utils.generate_unique_id: prefix_map.get(prefix.lower(), 'MAV').ljust(4, 'X')
generate_unique_id(prefix, random_part) ==
    LET p == Lower(prefix)
        final_prefix == IF p = <<"l", "e">> THEN MAVL
                        ELSE IF p = <<"c", "t", "v">> THEN MAVC
                        ELSE IF p = <<"m", "a", "v", "k">> THEN MAVK
                        ELSE MAVX
    IN  final_prefix \o random_part

LoaiKhach == {<<"l", "e">>, <<"c", "t", "v">>, <<"m", "a", "v", "k">>}

AddIdle ==
    [state |-> "END", ma_don |-> <<>>, ma_chon |-> <<>>, product_map |-> <<>>,
     product_id |-> None, so_ngay |-> None, source_price_map |-> <<>>,
     nguon |-> <<>>, gia_nhap_value |-> None, gia_ban_value |-> None]

FreeIds == {i \in DbIds : order_list[i] = None}

AddUnchanged == UNCHANGED <<order_list, product_price, supply_price, now, upd_data,
                            last, prev, nops, probe, webhook>>

\* start_add and chon_loai_khach_handler
ChonLoaiKhach(loai, random_part) ==
    /\ add_data.state = "END"
    /\ FreeIds # {}
    /\ add_data' = [AddIdle EXCEPT !.state = "NHAP_TEN_SP",
                                   !.ma_don = generate_unique_id(loai, random_part)]
    /\ AddUnchanged

\* nhap_ten_sp_handler with a name every catalogue product matches (no packages):
\* product_map = {san_pham: id}
NhapTenSp ==
    /\ add_data.state = "NHAP_TEN_SP"
    /\ LET ids == {p \in ProductIds : product_price[p] # None}
           names == {Val(product_price[p]).san_pham : p \in ids}
           pmap == [n \in names |->
                       CHOOSE p \in ids : Val(product_price[p]).san_pham = n]
       IN  add_data' = IF ids = {} THEN [add_data EXCEPT !.state = "NHAP_MA_MOI"]
                       ELSE [add_data EXCEPT !.state = "CHON_MA_SP", !.product_map = pmap]
    /\ AddUnchanged

\* the price > 0 rows of supply JOIN supply_price for the product: {source_name: price}
SourcePriceMap(product_id) ==
    LET ids == {i \in SupplyIds : supply_price[<<product_id, i>>] # None
                    /\ Val(supply_price[<<product_id, i>>]) > 0}
        names == {SupplyTable[i] : i \in ids}
    IN  [n \in names |->
            Val(supply_price[<<product_id, CHOOSE i \in ids : SupplyTable[i] = n>>])]

\* chon_ma_sp_handler
ChonMaSp(ma_chon) ==
    /\ add_data.state = "CHON_MA_SP"
    /\ ma_chon \in DOMAIN add_data.product_map
    /\ LET product_id == add_data.product_map[ma_chon]
           so_ngay == extract_days_from_ma_sp(ma_chon)
       IN  add_data' = [add_data EXCEPT
                           !.ma_chon = ma_chon,
                           !.product_id = Some(product_id),
                           !.so_ngay = IF so_ngay > 0 THEN Some(so_ngay) ELSE None,
                           !.source_price_map = SourcePriceMap(product_id),
                           !.state = "CHON_NGUON"]
    /\ AddUnchanged

\* nhap_ma_moi_handler
NhapMaMoi ==
    /\ add_data.state = "CHON_MA_SP"
    /\ add_data' = [add_data EXCEPT !.state = "NHAP_MA_MOI"]
    /\ AddUnchanged

\* xu_ly_ma_moi_handler
XuLyMaMoi(text) ==
    /\ add_data.state = "NHAP_MA_MOI"
    /\ LET ma_moi == ReplaceDashByDouble(text)
           so_ngay == extract_days_from_ma_sp(ma_moi)
       IN  add_data' = [add_data EXCEPT
                           !.ma_chon = ma_moi,
                           !.so_ngay = IF so_ngay > 0 THEN Some(so_ngay) ELSE None,
                           !.state = "NHAP_NGUON_MOI"]
    /\ AddUnchanged

\* the price part of chon_nguon_handler (lines 464-523): <<gia_nhap, gia_ban_rounded>>
chon_nguon_prices(ma_don, product_id, source_price_map, nguon) ==
    LET gia_nhap == IF nguon \in DOMAIN source_price_map THEN source_price_map[nguon] ELSE 0
        highest_price == IF IsNone(product_id) \/ IsNone(MaxPrice(Val(product_id)))
                         THEN 0 ELSE Val(MaxPrice(Val(product_id)))
        percentages_result == IF IsNone(product_id) THEN None
                              ELSE product_price[Val(product_id)]
        pct_ctv == IF IsNone(percentages_result) \/ IsNone(Val(percentages_result).pct_ctv)
                   THEN 100 ELSE Val(Val(percentages_result).pct_ctv)
        pct_khach == IF IsNone(percentages_result) \/ IsNone(Val(percentages_result).pct_khach)
                     THEN 100 ELSE Val(Val(percentages_result).pct_khach)
        tier == IF highest_price > 0 /\ percentages_result # None
                THEN (IF StartsWith(ma_don, MAVC)
                      THEN TruncDiv(highest_price * pct_ctv, 100)
                      ELSE IF StartsWith(ma_don, MAVL)
                      THEN MulDivTrunc(highest_price * pct_ctv, pct_khach, 10000)
                      ELSE gia_nhap)
                ELSE gia_nhap
        gia_ban_int == IF StartsWith(ma_don, MAVK) THEN gia_nhap ELSE tier
    IN  <<gia_nhap, round_thousand(gia_ban_int)>>

\* chon_nguon_handler
ChonNguon(nguon) ==
    /\ add_data.state = "CHON_NGUON"
    /\ nguon \in DOMAIN add_data.source_price_map
    /\ LET prices == chon_nguon_prices(add_data.ma_don, add_data.product_id,
                                       add_data.source_price_map, nguon)
       IN  add_data' = [add_data EXCEPT !.nguon = nguon,
                                        !.gia_nhap_value = Some(prices[1]),
                                        !.gia_ban_value = Some(prices[2]),
                                        !.state = "NHAP_THONG_TIN"]
    /\ AddUnchanged

\* chon_nguon_moi_handler
ChonNguonMoi ==
    /\ add_data.state = "CHON_NGUON"
    /\ add_data' = [add_data EXCEPT !.state = "NHAP_NGUON_MOI"]
    /\ AddUnchanged

\* nhap_nguon_moi_handler
NhapNguonMoi(name) ==
    /\ add_data.state = "NHAP_NGUON_MOI"
    /\ add_data' = [add_data EXCEPT !.nguon = name, !.state = "NHAP_GIA_NHAP"]
    /\ AddUnchanged

\* nhap_gia_nhap_handler
NhapGiaNhap(text) ==
    /\ add_data.state = "NHAP_GIA_NHAP"
    /\ LET gia_nhap_value == parse_price(text)
       IN  add_data' = IF gia_nhap_value < 0 THEN add_data
                       ELSE [add_data EXCEPT !.gia_nhap_value = Some(gia_nhap_value),
                                             !.state = "NHAP_THONG_TIN"]
    /\ AddUnchanged

\* nhap_thong_tin_handler, nhap_ten_khach_handler, nhap_link_khach_handler and
\* nhap_slot_handler: free text that no price or date depends on
NhapSlot ==
    /\ add_data.state = "NHAP_THONG_TIN"
    /\ add_data' = [add_data EXCEPT !.state =
                       IF add_data.gia_ban_value # None /\ Val(add_data.gia_ban_value) > 0
                       THEN "NHAP_NOTE" ELSE "NHAP_GIA_BAN"]
    /\ AddUnchanged

\* nhap_gia_ban_handler
NhapGiaBan(text) ==
    /\ add_data.state = "NHAP_GIA_BAN"
    /\ LET gia_ban_value == parse_price(text)
       IN  add_data' = IF gia_ban_value < 0 THEN add_data
                       ELSE [add_data EXCEPT
                                !.gia_ban_value = Some(round_thousand(gia_ban_value)),
                                !.state = "NHAP_NOTE"]
    /\ AddUnchanged

\* the row hoan_tat_don inserts
hoan_tat_don_row(info) ==
    LET ngay_bat_dau_dt == now.day
        ngay_bat_dau_str == FormatDMY(ngay_bat_dau_dt)
        so_ngay == IF IsNone(info.so_ngay) THEN 0 ELSE Val(info.so_ngay)
        gia_ban_value == IF IsNone(info.gia_ban_value) THEN 0 ELSE Val(info.gia_ban_value)
    IN  [ma_don |-> info.ma_don, san_pham |-> info.ma_chon,
         ngay_dang_ki |-> Some(ngay_bat_dau_dt), so_ngay |-> so_ngay,
         het_han |-> add_tinh_ngay_het_han(ngay_bat_dau_str, so_ngay),
         nguon |-> info.nguon,
         gia_nhap |-> IF IsNone(info.gia_nhap_value) THEN 0 ELSE Val(info.gia_nhap_value),
         gia_ban |-> gia_ban_value, tinh_trang |-> UNPAID, check_flag |-> "NULL"]

\* nhap_note_handler -> hoan_tat_don -> end_add
NhapNote ==
    /\ add_data.state = "NHAP_NOTE"
    /\ nops < MaxOps
    /\ FreeIds # {}
    /\ LET id == CHOOSE i \in FreeIds : \A j \in FreeIds : i <= j
       IN  order_list' = [order_list EXCEPT ![id] = Some(hoan_tat_don_row(add_data))]
    /\ add_data' = AddIdle
    /\ Record("add_order", add_data.ma_don, <<TRUE, [text |-> "added"], "added">>)
    /\ nops' = nops + 1
    /\ UNCHANGED <<product_price, supply_price, now, upd_data, probe, webhook>>

\* cancel_add -> end_add
CancelAdd ==
    /\ add_data.state # "END"
    /\ add_data' = AddIdle
    /\ AddUnchanged

(***************************************************************************)
(* View_order_unpaid.py: the unpaid-orders view                            *)
(***************************************************************************)
\* COALESCE(TRIM(check_flag::text), '') = '': only a NULL flag is blank, the
\* text of a boolean is 'true' or 'false'
check_flag_blank(check_flag) == check_flag = "NULL"

\* fetch_unpaid_orders (fewer rows than its limit of 100): the codes of the rows
\* with a blank check flag and the unpaid status, rows without code left out
fetch_unpaid_orders(ol) ==
    {Val(ol[i]).ma_don : i \in {j \in DbIds : /\ ol[j] # None
                                              /\ check_flag_blank(Val(ol[j]).check_flag)
                                              /\ Val(ol[j]).tinh_trang = UNPAID
                                              /\ Val(ol[j]).ma_don # <<>>}}

(***************************************************************************)
(* renewal_logic.py: run_renewal in concurrent worker threads              *)
(***************************************************************************)
\* a worker thread enters run_renewal(order_id); old is the row of the order then
StartRenewal(order_id) ==
    /\ Len(webhook.renewals) < MaxOps
    /\ webhook' = [webhook EXCEPT !.renewals =
                       Append(@, [order_id |-> order_id, pc |-> "fetch",
                                  old |-> fetch_order(order_id),
                                  ret |-> <<FALSE, [text |-> "running"], "running">>,
                                  update |-> None])]
    /\ UNCHANGED <<order_list, product_price, supply_price, now, add_data, upd_data,
                   last, prev, nops, probe>>

\* lines 203-269 in thread t: every read of run_renewal (the order row at line
\* 206, the clock at line 228, the price tables) and what it computes from them;
\* the calls that write nothing return here
RenewalFetch(t) ==
    /\ t \in DOMAIN webhook.renewals
    /\ webhook.renewals[t].pc = "fetch"
    /\ webhook' = [webhook EXCEPT
           !.renewals[t].ret = run_renewal(webhook.renewals[t].order_id).ret,
           !.renewals[t].update = run_renewal(webhook.renewals[t].order_id).update,
           !.renewals[t].pc = IF run_renewal(webhook.renewals[t].order_id).update = None
                              THEN "done" ELSE "write"]
    /\ UNCHANGED <<order_list, product_price, supply_price, now, add_data, upd_data,
                   last, prev, nops, probe>>

\* lines 271-299 in thread t: the UPDATE with the values computed from what was
\* read, and the return
RenewalWrite(t) ==
    /\ t \in DOMAIN webhook.renewals
    /\ webhook.renewals[t].pc = "write"
    /\ order_list' = update_order(order_list, webhook.renewals[t].order_id,
                                  Val(webhook.renewals[t].update))
    /\ Record("run_renewal", webhook.renewals[t].order_id, webhook.renewals[t].ret)
    /\ webhook' = [webhook EXCEPT !.renewals[t].pc = "done"]
    /\ nops' = nops + 1
    /\ UNCHANGED <<product_price, supply_price, now, add_data, upd_data, probe>>

(***************************************************************************)
(* update_order.py: editing the number of days of the order on display     *)
(***************************************************************************)
\* _get_active_order: the cached record at the current index, clamped
active_order_index(matched, index) == Min2(Max2(index, 0), Len(matched) - 1) + 1

\* _persist_field_change for SO_NGAY: UPDATE ... SET so_ngay = %s WHERE id = %s
\* and setattr on the cached record; no other column is written
persist_so_ngay(k, value) ==
    /\ order_list' =
           [order_list EXCEPT ![upd_data.matched_orders[k].db_id] =
               IF @ = None THEN None ELSE Some([Val(@) EXCEPT !.so_ngay = value])]
    /\ upd_data' = [upd_data EXCEPT !.matched_orders[k].so_ngay = value]
    /\ Record("edit_so_ngay", upd_data.matched_orders[k].ma_don,
              <<TRUE, [text |-> "edited"], "edited">>)

\* start_edit_update, choose_field_to_edit ("SO_NGAY") and
\* input_new_so_ngay_handler: a text that is no integer, or one not above 0, asks
\* again
InputNewSoNgay(text) ==
    /\ nops < MaxOps
    /\ upd_data.state = "SELECT_ACTION"
    /\ IF text # <<>> /\ AllDigits(text) /\ IntOf(text, 1, Len(text)) > 0
       THEN persist_so_ngay(active_order_index(upd_data.matched_orders, upd_data.current_match_index),
                            IntOf(text, 1, Len(text)))
       ELSE UNCHANGED <<order_list, upd_data, last, prev>>
    /\ nops' = nops + 1
    /\ UNCHANGED <<product_price, supply_price, now, add_data, probe, webhook>>

(***************************************************************************)
(* webhooks/payment_webhook.py: the HTTP boundary and its worker threads   *)
(***************************************************************************)
\* the characters of an upper-cased code in the order Python compares them
CharOrder == <<"0", "1", "2", "3", "4", "5", "6", "7", "8", "9", "A", "C", "K", "L", "M", "S", "V", "X", "_">>
CharRank(c) == CHOOSE k \in 1..Len(CharOrder) : CharOrder[k] = c

\* a < b for two str values
RECURSIVE TextLess(_, _)
TextLess(a, b) ==
    IF a = <<>> THEN b # <<>>
    ELSE IF b = <<>> THEN FALSE
    ELSE IF Head(a) = Head(b) THEN TextLess(Tail(a), Tail(b))
    ELSE CharRank(Head(a)) < CharRank(Head(b))

\* sorted(S) for a set of str
RECURSIVE SortedTexts(_)
SortedTexts(S) ==
    IF S = {} THEN <<>>
    ELSE <<CHOOSE x \in S : \A y \in S \ {x} : TextLess(x, y)>>
         \o SortedTexts(S \ {CHOOSE x \in S : \A y \in S \ {x} : TextLess(x, y)})

\* a faulty findall that ends every match after five characters
RECURSIVE FindCodesOfEight(_, _)
FindCodesOfEight(s, i) ==
    IF i + 7 > Len(s) THEN {}
    ELSE IF SubSeq(s, i, i + 2) = <<"M", "A", "V">> /\ SkipWhile(s, i + 3, WordChars) >= i + 8
    THEN {SubSeq(s, i, i + 7)} \cup FindCodesOfEight(s, i + 8)
    ELSE FindCodesOfEight(s, i + 1)

\* re.findall(r"MAV\w{5,}", text) from position i on, as a set
RECURSIVE FindCodes(_, _)
FindCodes(s, i) ==
    IF i + 7 > Len(s) THEN {}
    ELSE IF SubSeq(s, i, i + 2) = <<"M", "A", "V">> /\ SkipWhile(s, i + 3, WordChars) >= i + 8
    THEN {SubSeq(s, i, SkipWhile(s, i + 3, WordChars) - 1)}
         \cup FindCodes(s, SkipWhile(s, i + 3, WordChars))
    ELSE FindCodes(s, i + 1)

\* extract_ma_don
extract_ma_don(text) == SortedTexts({Upper(m) : m \in FindCodes(text, 1)})

\* a request body: text that is no JSON, or JSON null, a JSON array, or a JSON
\* object with its "content" ("" without one) and its "transferAmount" after
\* _normalize_amount (0 without one)
Body(json, content) == [json |-> json, content |-> content, amount |-> 0]

PaymentBody(content, amount) == [json |-> "object", content |-> content, amount |-> amount]

\* process_payment_payload up to its loop: the codes it will renew.  A payload
\* that is no mapping raises in _get_payload_value, inside the outer try.
ma_don_list(body) ==
    IF body.json = "object" THEN extract_ma_don(body.content) ELSE <<>>

\* the labels of payment_supply.status: the casefolded status is compared with
\* the unpaid label
PAYMENT_PENDING_STATUS == "Chua Thanh Toan"
PAYMENT_PAID_STATUS == "Da Thanh Toan"

\* a faulty INSERT that overwrites the newest receipt
insert_over_last_receipt(receipts, codes, body, today) == IF receipts = <<>> THEN <<[ma_don_hang |-> codes, ngay_thanh_toan |-> today, so_tien |-> body.amount, noi_dung_ck |-> body.content]>> ELSE [receipts EXCEPT ![Len(receipts)] = [ma_don_hang |-> codes, ngay_thanh_toan |-> today, so_tien |-> body.amount, noi_dung_ck |-> body.content]]

\* _insert_payment_receipt: one INSERT INTO payment_receipt; the codes are joined
\* with " - ", the payment date of a payload without transactionDate is
\* datetime.utcnow().date()
insert_payment_receipt(receipts, codes, body, today) ==
    Append(receipts, [ma_don_hang |-> codes, ngay_thanh_toan |-> today,
                      so_tien |-> body.amount, noi_dung_ck |-> body.content])

\* s has the substring p
Contains(s, p) == \E i \in 1..(Len(s) - Len(p) + 1) : SubSeq(s, i, i + Len(p) - 1) = p

\* _find_source_from_content: the suppliers whose lower-cased name occurs in the
\* lower-cased content; the SELECT has no ORDER BY, so any of them can come first
find_source_from_content(content) ==
    IF {i \in SupplyIds : Contains(Lower(content), Lower(SupplyTable[i]))} = {} THEN {None}
    ELSE {Some(i) : i \in {j \in SupplyIds : Contains(Lower(content), Lower(SupplyTable[j]))}}

\* the product_price id of the first order (id_don_hang compared in lower case)
\* whose product is in product_price
product_id_of_code(ol, code) ==
    LET ids == {i \in DbIds : ol[i] # None /\ Lower(Val(ol[i]).ma_don) = Lower(code)
                    /\ get_product_record(Val(ol[i]).san_pham) # None}
    IN  IF ids = {} THEN None
        ELSE Some(Val(get_product_record(Val(ol[CHOOSE i \in ids : \A j \in ids : i <= j]).san_pham))[1])

\* _find_product_id_for_orders
RECURSIVE find_product_id_for_orders(_, _)
find_product_id_for_orders(ol, order_codes) ==
    IF order_codes = <<>> THEN None
    ELSE IF product_id_of_code(ol, Head(order_codes)) # None
    THEN product_id_of_code(ol, Head(order_codes))
    ELSE find_product_id_for_orders(ol, Tail(order_codes))

\* lines 278-285: the supplier's price of the product, else the transfer amount
amount_value(source_id, product_id, body) ==
    IF source_id # None /\ product_id # None /\ supply_price[<<Val(product_id), Val(source_id)>>] # None
    THEN Val(supply_price[<<Val(product_id), Val(source_id)>>])
    ELSE body.amount

\* the index of the newest payment_supply row of the supplier, 0 without one
latest_payment(ps, source_id) ==
    IF {k \in DOMAIN ps : ps[k].source_id = source_id} = {} THEN 0
    ELSE CHOOSE k \in DOMAIN ps : /\ ps[k].source_id = source_id
                                  /\ \A j \in DOMAIN ps : ps[j].source_id = source_id => j <= k

\* a faulty test that takes a record without status for a pending one
is_pending_or_empty(status_value) == status_value \in {None, Some(PAYMENT_PENDING_STATUS)}

\* str(status_value or "").strip().casefold() == "chưa thanh toán"
is_pending(status_value) == status_value = Some(PAYMENT_PENDING_STATUS)

\* _sync_payment_supply (lines 221-255) for a supplier and a positive amount
sync_payment_supply(ps, source_id, amount, today) ==
    IF latest_payment(ps, source_id) # 0 /\ is_pending(ps[latest_payment(ps, source_id)].status)
    THEN [ps EXCEPT ![latest_payment(ps, source_id)].import = @ + amount]
    ELSE Append(ps, [source_id |-> source_id, import |-> amount, round |-> FormatDMY(today),
                     paid |-> None, status |-> None])

\* lines 287-295: the guard of the call and of _sync_payment_supply itself
synced(ps, source_id, amount, today) ==
    IF source_id # None /\ amount > 0
    THEN sync_payment_supply(ps, Val(source_id), amount, today)
    ELSE ps

\* a worker thread enters _sync_payment_supply(source_id, amount) past its guard
\* (line 218); before is the table then
StartSync(source_id, amount) ==
    /\ Len(webhook.syncing) < MaxOps
    /\ amount > 0
    /\ webhook' = [webhook EXCEPT !.syncing =
                       Append(@, [source_id |-> source_id, amount |-> amount, pc |-> "select",
                                  row |-> None, before |-> webhook.payment_supply])]
    /\ UNCHANGED <<order_list, product_price, supply_price, now, add_data, upd_data, last, prev, nops, probe>>

\* lines 221-228 in thread t: the SELECT of the supplier's newest row (id, import,
\* status), None without one
SyncSelect(t) ==
    /\ t \in DOMAIN webhook.syncing
    /\ webhook.syncing[t].pc = "select"
    /\ webhook' = [webhook EXCEPT
           !.syncing[t].row =
               IF latest_payment(webhook.payment_supply, webhook.syncing[t].source_id) = 0 THEN None
               ELSE Some([id |-> latest_payment(webhook.payment_supply, webhook.syncing[t].source_id),
                          import |-> webhook.payment_supply[latest_payment(webhook.payment_supply, webhook.syncing[t].source_id)].import,
                          status |-> webhook.payment_supply[latest_payment(webhook.payment_supply, webhook.syncing[t].source_id)].status]),
           !.syncing[t].pc = "write"]
    /\ UNCHANGED <<order_list, product_price, supply_price, now, add_data, upd_data, last, prev, nops, probe>>

\* lines 229-255 with the row that was selected: the UPDATE sets import to the
\* selected import + amount (lines 233-240), the INSERT adds a row
sync_write(ps, thread, today) ==
    IF thread.row # None /\ is_pending(Val(thread.row).status)
    THEN [ps EXCEPT ![Val(thread.row).id].import = Val(thread.row).import + thread.amount]
    ELSE Append(ps, [source_id |-> thread.source_id, import |-> thread.amount,
                     round |-> FormatDMY(today), paid |-> None, status |-> None])

\* lines 229-255 in thread t: the UPDATE or the INSERT, and the return
SyncWrite(t) ==
    /\ t \in DOMAIN webhook.syncing
    /\ webhook.syncing[t].pc = "write"
    /\ webhook' = [webhook EXCEPT
           !.payment_supply = sync_write(@, webhook.syncing[t], now.day),
           !.syncing[t].pc = "done"]
    /\ UNCHANGED <<order_list, product_price, supply_price, now, add_data, upd_data, last, prev, nops, probe>>

\* a faulty choice that sends the status line for every result
notification_status_only(ma_don, ret, delivered) == [fn |-> "status", ma_don |-> ma_don, status |-> ret[3], delivered |-> delivered]

\* lines 305-320: the notification attempted for the result of run_renewal
notification(ma_don, ret, delivered) ==
    IF ret[1] = TRUE /\ ret[3] = "renewal"
    THEN IF DOMAIN ret[2] # {}
         THEN [fn |-> "success", ma_don |-> ma_don, status |-> "renewal", delivered |-> delivered]
         ELSE [fn |-> "status", ma_don |-> ma_don, status |-> "success", delivered |-> delivered]
    ELSE [fn |-> "status", ma_don |-> ma_don, status |-> ret[3], delivered |-> delivered]

WebhookIdle == [requests |-> 0, request |-> None, response |-> None, workers |-> <<>>, events |-> 0, inserts |-> 0, failed |-> 0, receipts |-> <<>>, payment_supply |-> <<>>, syncs |-> <<>>, notes |-> <<>>, renewals |-> <<>>, sync_failed |-> 0, syncing |-> <<>>]

WebhookUnchanged == UNCHANGED <<order_list, product_price, supply_price, now, add_data, upd_data, last, prev, nops, probe>>

\* a thread at the start of process_payment_payload; a payload that is no
\* mapping leaves through the outer except at once (line 266)
NewWorker(body) ==
    [pc |-> IF body.json = "array" THEN "loop" ELSE "receipt",
     body |-> IF body.json = "object" THEN body ELSE Body("object", <<>>),
     mapping |-> body.json # "array",
     codes |-> ma_don_list(body), inserts |-> 0, calls |-> 0, returned |-> 0, notes |-> 0]

\* handle_payment_webhook: request.get_json(force=True), 400 when it raises, else
\* a thread running process_payment_payload(payload or {}) is started and 200 is
\* returned
HandlePaymentWebhook(body) ==
    /\ webhook.requests < MaxOps
    /\ webhook' =
           IF body.json = "invalid"
           THEN [webhook EXCEPT !.requests = @ + 1, !.request = Some(body),
                                !.response = Some(400)]
           ELSE [webhook EXCEPT !.requests = @ + 1, !.request = Some(body),
                                !.response = Some(200),
                                !.events = IF body.json = "array" THEN @ ELSE @ + 1,
                                !.workers = Append(@, NewWorker(body))]
    /\ WebhookUnchanged

\* lines 275-297 in worker w: the supplier's payment record
supplied(ps, worker, source_id, today) ==
    synced(ps, source_id,
           amount_value(source_id, find_product_id_for_orders(order_list, worker.codes), worker.body),
           today)

\* the calls of _sync_payment_supply that got past its guard, with the table
\* they found
sync_calls(calls, ps, worker, source_id, today) ==
    IF source_id # None /\ amount_value(source_id, find_product_id_for_orders(order_list, worker.codes), worker.body) > 0
    THEN Append(calls, [source_id |-> Val(source_id),
                        amount |-> amount_value(source_id, find_product_id_for_orders(order_list, worker.codes), worker.body),
                        before |-> ps, today |-> today])
    ELSE calls

\* lines 266-297 in worker w: the receipt is logged, then the supplier's payment
\* record is brought up to date
WorkerReceipt(w) ==
    /\ w \in DOMAIN webhook.workers
    /\ webhook.workers[w].pc = "receipt"
    /\ \E source_id \in find_source_from_content(webhook.workers[w].body.content) :
          webhook' = [webhook EXCEPT
              !.receipts = insert_payment_receipt(@, webhook.workers[w].codes,
                                                  webhook.workers[w].body, now.day),
              !.payment_supply = supplied(@, webhook.workers[w], source_id, now.day),
              !.syncs = sync_calls(@, webhook.payment_supply, webhook.workers[w], source_id, now.day),
              !.inserts = @ + 1,
              !.workers[w].inserts = @ + 1,
              !.workers[w].pc = "loop"]
    /\ WebhookUnchanged

\* a receipt INSERT whose exception no inner try catches: the outer except
\* would end the worker before its loop
WorkerReceiptRaising(w) ==
    /\ w \in DOMAIN webhook.workers
    /\ webhook.workers[w].pc = "receipt"
    /\ webhook' = [webhook EXCEPT !.inserts = @ + 1, !.failed = @ + 1,
                                  !.workers[w].inserts = @ + 1,
                                  !.workers[w].codes = <<>>,
                                  !.workers[w].pc = "loop"]
    /\ WebhookUnchanged

\* the same lines when the INSERT of the receipt raises: logged (line 273), and
\* the worker goes on
WorkerReceiptFailing(w) ==
    /\ w \in DOMAIN webhook.workers
    /\ webhook.workers[w].pc = "receipt"
    /\ \E source_id \in find_source_from_content(webhook.workers[w].body.content) :
          webhook' = [webhook EXCEPT
              !.payment_supply = supplied(@, webhook.workers[w], source_id, now.day),
              !.syncs = sync_calls(@, webhook.payment_supply, webhook.workers[w], source_id, now.day),
              !.inserts = @ + 1,
              !.failed = @ + 1,
              !.workers[w].inserts = @ + 1,
              !.workers[w].pc = "loop"]
    /\ WebhookUnchanged

\* lines 266-297 when a database call of the supplier part raises (a SELECT of
\* _find_source_from_content, _find_product_id_for_orders or _fetch_supply_price,
\* or a statement of _sync_payment_supply): logged (line 297), payment_supply is
\* left as it was, and the worker goes on; the receipt INSERT before it succeeds
\* or raises as well
WorkerSyncFailing(w, receipt_fails) ==
    /\ w \in DOMAIN webhook.workers
    /\ webhook.workers[w].pc = "receipt"
    /\ webhook' = [webhook EXCEPT
           !.receipts = IF receipt_fails THEN @
                        ELSE insert_payment_receipt(@, webhook.workers[w].codes,
                                                    webhook.workers[w].body, now.day),
           !.inserts = @ + 1,
           !.failed = IF receipt_fails THEN @ + 1 ELSE @,
           !.sync_failed = @ + 1,
           !.workers[w].inserts = @ + 1,
           !.workers[w].pc = "loop"]
    /\ WebhookUnchanged

\* one round of the loop of process_payment_payload (lines 303-320) in worker w:
\* run_renewal and the notification of its result, delivered or not
WorkerRenew(w) ==
    /\ w \in DOMAIN webhook.workers
    /\ webhook.workers[w].pc = "loop"
    /\ webhook.workers[w].codes # <<>>
    /\ renewal_result(Head(webhook.workers[w].codes),
                      run_renewal(Head(webhook.workers[w].codes)))
    /\ nops' = nops + 1
    /\ \E delivered \in BOOLEAN :
          webhook' = [webhook EXCEPT
              !.workers[w].codes = Tail(@),
              !.workers[w].calls = @ + 1,
              !.workers[w].returned = @ + 1,
              !.workers[w].notes = @ + 1,
              !.notes = Append(@, notification(Head(webhook.workers[w].codes),
                                               run_renewal(Head(webhook.workers[w].codes)).ret,
                                               delivered))]
    /\ UNCHANGED <<product_price, supply_price, now, add_data, upd_data, probe>>

\* the same round with a failing database call: the error result of a failed
\* UPDATE is handled like any other, an exception that leaves run_renewal is
\* caught by the outer try (line 321), which ends the worker
WorkerRenewFailing(w, call) ==
    /\ w \in DOMAIN webhook.workers
    /\ webhook.workers[w].pc = "loop"
    /\ webhook.workers[w].codes # <<>>
    /\ call_made(Head(webhook.workers[w].codes), call)
    /\ failing_result(Head(webhook.workers[w].codes),
                      run_renewal_failing(Head(webhook.workers[w].codes), call))
    /\ nops' = nops + 1
    /\ webhook' =
           IF call = "update_order"
           THEN [webhook EXCEPT
                    !.workers[w].codes = Tail(@),
                    !.workers[w].calls = @ + 1,
                    !.workers[w].returned = @ + 1,
                    !.workers[w].notes = @ + 1,
                    !.notes = Append(@, notification(Head(webhook.workers[w].codes),
                                         run_renewal_failing(Head(webhook.workers[w].codes), call).ret,
                                         TRUE))]
           ELSE [webhook EXCEPT !.workers[w].codes = <<>>, !.workers[w].calls = @ + 1]
    /\ UNCHANGED <<product_price, supply_price, now, add_data, upd_data, probe>>

\* process_payment_payload returns and its thread ends
WorkerExit(w) ==
    /\ w \in DOMAIN webhook.workers
    /\ webhook.workers[w].pc = "loop"
    /\ webhook.workers[w].codes = <<>>
    /\ webhook' = [webhook EXCEPT !.workers =
                       SubSeq(@, 1, w - 1) \o SubSeq(@, w + 1, Len(@))]
    /\ WebhookUnchanged

(***************************************************************************)
(* Initial states and specifications                                       *)
(***************************************************************************)
Ones == [i \in 1..7 |-> "1"]

\* the catalogue stores the one-month product with a capital letter
CatalogName1 == <<"A", "-", "-", "1", "m">>

Profile(name, ctv, khach) == Some([san_pham |-> name, pct_ctv |-> ctv, pct_khach |-> khach])

DefaultProfile1 == Profile(CatalogName1, Some(120), Some(110))
Profiles1 == {None, Profile(CatalogName1, None, None), DefaultProfile1,
              Profile(CatalogName1, Some(0), Some(110))}
OwnPrices == {None, Some(0), Some(45200)}
OtherPrices == {None, Some(100000)}

ProductPriceWith(profile1) ==
    [p \in ProductIds |-> IF p = 1 THEN profile1 ELSE Profile(P12M, Some(120), Some(110))]

SupplyPriceWith(own, other) ==
    [c \in ProductIds \X SupplyIds |->
        IF c = <<1, 1>> THEN own
        ELSE IF c = <<1, 2>> THEN other
        ELSE IF c = <<2, 1>> THEN Some(400000)
        ELSE Some(450000)]

\* an order as an earlier renewal left it, paid and checked since
StoredOrder(prefix, san_pham, het_han, nguon) ==
    LET days == IF IsNone(RenewalDays(san_pham)) THEN 30 ELSE Val(RenewalDays(san_pham))
    IN  [ma_don |-> prefix \o Ones, san_pham |-> san_pham,
         ngay_dang_ki |-> Some(het_han - days), so_ngay |-> days,
         het_han |-> Some(het_han), nguon |-> nguon,
         gia_nhap |-> 45200, gia_ban |-> 70000,
         tinh_trang |-> PAID, check_flag |-> "TRUE"]

DefaultExpiry == Day0 + 3

\* either the pricing tables vary under a one-month order about to expire, or the
\* order's product, expiry and supplier vary under the default pricing tables
InitTables ==
    \/ \E prefix \in Prefixes, profile1 \in Profiles1, own \in OwnPrices, other \in OtherPrices :
          /\ order_list = [i \in DbIds |->
                 IF i = 1 THEN Some(StoredOrder(prefix, P1M, DefaultExpiry, NguonS1)) ELSE None]
          /\ product_price = ProductPriceWith(profile1)
          /\ supply_price = SupplyPriceWith(own, other)
    \/ \E san_pham \in {P1M, P12M, P0M, PNONE, P2M}, off \in ExpiryOffsets,
          nguon \in {NguonS1, NguonUnknown} :
          /\ order_list = [i \in DbIds |->
                 IF i = 1 THEN Some(StoredOrder(MAVL, san_pham, Day0 + off, nguon)) ELSE None]
          /\ product_price = ProductPriceWith(DefaultProfile1)
          /\ supply_price = SupplyPriceWith(Some(45200), Some(100000))

InitRest ==
    /\ now = [day |-> Day0, hour |-> 0]
    /\ add_data = AddIdle
    /\ upd_data = UpdIdle
    /\ last = [op |-> "init", arg |-> <<>>, ret |-> <<FALSE, [text |-> "init"], "init">>,
               before |-> order_list, clock |-> now]
    /\ prev = [op |-> "init", arg |-> <<>>, kind |-> "init", before |-> order_list,
               clock |-> now]
    /\ nops = 0
    /\ webhook = WebhookIdle

NoProbe == [fn |-> "none", arg |-> <<>>, res |-> <<>>]

Init ==
    /\ InitTables
    /\ InitRest
    /\ probe = NoProbe

StoredCodes == {Val(order_list[i]).ma_don : i \in {j \in DbIds : order_list[j] # None}}

\* the codes a webhook text can carry: the stored ones and one no order has
WebhookCodes == StoredCodes \cup {MAVX \o [i \in 1..7 |-> "0"]}

NextOrders ==
    \/ \E order_id \in WebhookCodes : RunRenewal(order_id)
    \/ \E search_term \in StoredCodes : InputValue(Lower(search_term))
    \/ ExtendOrder
    \/ CancelUpdate
    \/ Tick

NewCodes == {P1M, <<"b", EnDash, "1", "2", "m">>, PNONE}
PriceTexts == {<<"5", "0">>, <<"4", "5", ".", "2">>, <<"x">>}

NextAdd ==
    \/ \E loai \in LoaiKhach, r \in RandomParts : ChonLoaiKhach(loai, r)
    \/ NhapTenSp
    \/ \E ma_chon \in DOMAIN add_data.product_map : ChonMaSp(ma_chon)
    \/ NhapMaMoi
    \/ \E text \in NewCodes : XuLyMaMoi(text)
    \/ \E nguon \in DOMAIN add_data.source_price_map : ChonNguon(nguon)
    \/ ChonNguonMoi
    \/ \E name \in {NguonUnknown} : NhapNguonMoi(name)
    \/ \E text \in PriceTexts : NhapGiaNhap(text)
    \/ NhapSlot
    \/ \E text \in PriceTexts : NhapGiaBan(text)
    \/ NhapNote
    \/ CancelAdd

Next == NextOrders \/ NextAdd

\* renewals, searches and manual extensions of the stored orders
Spec == Init /\ [][NextOrders]_vars

\* the order creation conversation
SpecAdd == Init /\ [][NextAdd]_vars

\* one retail order about to expire; orders are added, renewed, extended and
\* their number of days edited
InitLedger ==
    /\ order_list = [i \in DbIds |->
           IF i = 1 THEN Some(StoredOrder(MAVL, P1M, DefaultExpiry, NguonS1)) ELSE None]
    /\ product_price = ProductPriceWith(DefaultProfile1)
    /\ supply_price = SupplyPriceWith(Some(45200), Some(100000))
    /\ InitRest
    /\ probe = NoProbe

DayTexts == {<<"6", "0">>, <<"0">>, <<"x">>}

NextLedger ==
    \/ NextOrders
    \/ NextAdd
    \/ \E text \in DayTexts : InputNewSoNgay(text)

SpecLedger == InitLedger /\ [][NextLedger]_vars

\* an order as found in the table: the expiry date may be NULL, the supplier
\* name empty and the import price below 5000
StoredOrderWith(san_pham, het_han, nguon, gia_nhap) ==
    [ma_don |-> MAVL \o Ones, san_pham |-> san_pham,
     ngay_dang_ki |-> IF IsNone(het_han) THEN None ELSE Some(Val(het_han) - 30),
     so_ngay |-> 30, het_han |-> het_han, nguon |-> nguon,
     gia_nhap |-> gia_nhap, gia_ban |-> 70000,
     tinh_trang |-> PAID, check_flag |-> "TRUE"]

ImportPrices == {3000}

InitEngine ==
    /\ \E san_pham \in {P1M, PNONE}, het_han \in {None, Some(Day0 + 3), Some(Day0 + 10)},
          nguon \in {NguonS1, NguonUnknown, <<>>}, gia_nhap \in ImportPrices,
          profile1 \in {None, DefaultProfile1} :
          /\ order_list = [i \in DbIds |->
                 IF i = 1 THEN Some(StoredOrderWith(san_pham, het_han, nguon, gia_nhap))
                 ELSE None]
          /\ product_price = ProductPriceWith(profile1)
          /\ supply_price = SupplyPriceWith(Some(45200), Some(100000))
    /\ InitRest
    /\ probe = NoProbe

\* the codes run_renewal can be called with: the stored ones as stored and in
\* lower case, one no order has, and the empty one
EngineCodes == WebhookCodes \cup {Lower(c) : c \in StoredCodes} \cup {<<>>}

NextEngine ==
    \/ \E order_id \in EngineCodes : RunRenewal(order_id)
    \/ \E order_id \in EngineCodes, call \in DbCalls : RunRenewalFailing(order_id, call)
    \/ \E search_term \in StoredCodes : InputValue(Lower(search_term))
    \/ ExtendOrder
    \/ CancelUpdate
    \/ Tick

\* run_renewal on any code, with and without database failures, and the manual
\* extension, on orders as any writer of the table may have left them
SpecEngine == InitEngine /\ [][NextEngine]_vars

\* the webhook texts: none, a stored code after the payer's name, a stored code
\* in lower case, and two codes
Contents == {<<"x", " ">> \o c : c \in StoredCodes} \cup {(MAVX \o [i \in 1..7 |-> "0"]) \o <<" ">> \o c : c \in StoredCodes}

Bodies == {Body("invalid", <<>>), Body("null", <<>>), Body("array", <<>>)} \cup {Body("object", t) : t \in Contents}

\* the calls whose failure a worker sees differently: one that raises out of
\* run_renewal and the UPDATE, whose failure run_renewal returns
WorkerCalls == {"fetch_order", "update_order"}

NextWebhook ==
    \/ \E body \in Bodies : HandlePaymentWebhook(body)
    \/ \E w \in DOMAIN webhook.workers : WorkerReceipt(w)
    \/ \E w \in DOMAIN webhook.workers : WorkerReceiptFailing(w)
    \/ \E w \in DOMAIN webhook.workers : WorkerRenew(w)
    \/ \E w \in DOMAIN webhook.workers, call \in WorkerCalls : WorkerRenewFailing(w, call)
    \/ \E w \in DOMAIN webhook.workers : WorkerExit(w)

\* the worker threads with every failure they catch: of the receipt INSERT, of
\* the supplier part and of run_renewal's database calls
\* a payload that is no mapping, and one whose text carries two codes
WorkerBodies == {Body("array", <<>>)} \cup {Body("object", (MAVX \o [i \in 1..7 |-> "0"]) \o <<" ">> \o c) : c \in StoredCodes}

NextWorker ==
    \/ \E body \in WorkerBodies : HandlePaymentWebhook(body)
    \/ \E w \in DOMAIN webhook.workers : WorkerReceipt(w)
    \/ \E w \in DOMAIN webhook.workers : WorkerReceiptFailing(w)
    \/ \E w \in DOMAIN webhook.workers, receipt_fails \in BOOLEAN : WorkerSyncFailing(w, receipt_fails)
    \/ \E w \in DOMAIN webhook.workers : WorkerRenew(w)
    \/ \E w \in DOMAIN webhook.workers, call \in WorkerCalls : WorkerRenewFailing(w, call)
    \/ \E w \in DOMAIN webhook.workers : WorkerExit(w)

\* one order about to expire under the default pricing tables
InitWebhook ==
    /\ \E prefix \in {MAVL, MAVK} :
          order_list = [i \in DbIds |->
              IF i = 1 THEN Some(StoredOrder(prefix, P1M, DefaultExpiry, NguonS1)) ELSE None]
    /\ product_price = ProductPriceWith(DefaultProfile1)
    /\ supply_price = SupplyPriceWith(Some(45200), Some(100000))
    /\ InitRest
    /\ probe = NoProbe

\* payment notifications arriving at the HTTP boundary and their worker threads
SpecWebhook == InitWebhook /\ [][NextWebhook]_vars

\* the worker threads of payment notifications and the failures inside them
InitWorker ==
    /\ order_list = [i \in DbIds |->
           IF i = 1 THEN Some(StoredOrder(MAVL, P1M, DefaultExpiry, NguonS1)) ELSE None]
    /\ product_price = ProductPriceWith(DefaultProfile1)
    /\ supply_price = SupplyPriceWith(Some(45200), Some(100000))
    /\ InitRest
    /\ probe = NoProbe

SpecWorker == InitWorker /\ [][NextWorker]_vars

\* an order with 0 to 4 days until its expiry, of one month or of twelve
DueOffsets == 0..4

InitRace ==
    /\ \E san_pham \in {P1M, P12M}, off \in DueOffsets :
          order_list = [i \in DbIds |->
              IF i = 1 THEN Some(StoredOrder(MAVL, san_pham, Day0 + off, NguonS1)) ELSE None]
    /\ product_price = ProductPriceWith(DefaultProfile1)
    /\ supply_price = SupplyPriceWith(Some(45200), Some(100000))
    /\ InitRest
    /\ probe = NoProbe

NextRace ==
    \/ \E order_id \in StoredCodes : StartRenewal(order_id)
    \/ \E t \in DOMAIN webhook.renewals : RenewalFetch(t)
    \/ \E t \in DOMAIN webhook.renewals : RenewalWrite(t)
    \/ Tick

\* deliveries of one payment to concurrent workers: the reads and the write of
\* their run_renewal calls interleave
SpecRace == InitRace /\ [][NextRace]_vars

\* payment_supply rows the table may hold for the first supplier: pending ones
\* are written outside the bot, paid ones by handle_source_paid
SupplyRow(source_id, import, status) == [source_id |-> source_id, import |-> import, round |-> FormatDMY(Day0 - 1), paid |-> None, status |-> status]
PaymentSupplies == {<<>>, <<SupplyRow(1, 45000, Some(PAYMENT_PENDING_STATUS))>>, <<SupplyRow(1, 45000, Some(PAYMENT_PAID_STATUS))>>, <<SupplyRow(2, 90000, Some(PAYMENT_PENDING_STATUS))>>}

\* transfers: to the first supplier alone, to the first supplier for the stored
\* order, and one that names no supplier
TransferAmounts == {0, 50000}
PaymentContents == {SupplyTable[1], <<"S", "1", " ">> \o (MAVL \o Ones), <<"x">>}
PaymentBodies == {PaymentBody(content, amount) : content \in PaymentContents, amount \in TransferAmounts}

InitPayment ==
    /\ order_list = [i \in DbIds |->
           IF i = 1 THEN Some(StoredOrder(MAVL, P1M, DefaultExpiry, NguonS1)) ELSE None]
    /\ product_price = ProductPriceWith(DefaultProfile1)
    /\ \E own \in {None, Some(45200)} : supply_price = SupplyPriceWith(own, Some(100000))
    /\ now = [day |-> Day0, hour |-> 0]
    /\ add_data = AddIdle
    /\ upd_data = UpdIdle
    /\ last = [op |-> "init", arg |-> <<>>, ret |-> <<FALSE, [text |-> "init"], "init">>,
               before |-> order_list, clock |-> now]
    /\ prev = [op |-> "init", arg |-> <<>>, kind |-> "init", before |-> order_list,
               clock |-> now]
    /\ nops = 0
    /\ \E ps \in PaymentSupplies : webhook = [WebhookIdle EXCEPT !.payment_supply = ps]
    /\ probe = NoProbe

NextPayment ==
    \/ \E body \in PaymentBodies : HandlePaymentWebhook(body)
    \/ \E w \in DOMAIN webhook.workers : WorkerReceipt(w)
    \/ \E w \in DOMAIN webhook.workers : WorkerRenew(w)
    \/ \E w \in DOMAIN webhook.workers : WorkerExit(w)
    \/ Tick

\* transfers to suppliers and the payment_supply records they are booked on
SpecPayment == InitPayment /\ [][NextPayment]_vars

\* amounts of concurrent transfers to one supplier
TopUpAmounts == {30000, 50000}

InitTopUp ==
    /\ order_list = [i \in DbIds |->
           IF i = 1 THEN Some(StoredOrder(MAVL, P1M, DefaultExpiry, NguonS1)) ELSE None]
    /\ product_price = ProductPriceWith(DefaultProfile1)
    /\ supply_price = SupplyPriceWith(Some(45200), Some(100000))
    /\ now = [day |-> Day0, hour |-> 0]
    /\ add_data = AddIdle
    /\ upd_data = UpdIdle
    /\ last = [op |-> "init", arg |-> <<>>, ret |-> <<FALSE, [text |-> "init"], "init">>,
               before |-> order_list, clock |-> now]
    /\ prev = [op |-> "init", arg |-> <<>>, kind |-> "init", before |-> order_list,
               clock |-> now]
    /\ nops = 0
    /\ \E ps \in PaymentSupplies : webhook = [WebhookIdle EXCEPT !.payment_supply = ps]
    /\ probe = NoProbe

NextTopUp ==
    \/ \E source_id \in SupplyIds, amount \in TopUpAmounts : StartSync(source_id, amount)
    \/ \E t \in DOMAIN webhook.syncing : SyncSelect(t)
    \/ \E t \in DOMAIN webhook.syncing : SyncWrite(t)

\* _sync_payment_supply in concurrent worker threads
SpecTopUp == InitTopUp /\ [][NextTopUp]_vars

(***************************************************************************)
(* The pure helpers on enumerated arguments                                *)
(***************************************************************************)
\* amounts the rounding helpers are applied to
MaxAmount == 2500
\* length of the product codes the duration parsers are applied to
MaxLen == 7

DurationAlphabet == {"-", "1", "2", "m", "M"}
Texts == UNION {[1..n -> DurationAlphabet] : n \in 0..MaxLen}

InitNoOrders ==
    /\ order_list = [i \in DbIds |-> None]
    /\ product_price = ProductPriceWith(DefaultProfile1)
    /\ supply_price = SupplyPriceWith(Some(45200), Some(100000))
    /\ InitRest

InitRound ==
    /\ InitNoOrders
    /\ \E v \in 0..MaxAmount : probe = [fn |-> "round", arg |-> v, res |-> <<>>]

\* the three thousand-rounding helpers on one amount
ProbeRound ==
    /\ probe.fn = "round" /\ probe.res = <<>>
    /\ probe' = [probe EXCEPT !.res =
                     <<[add_order |-> round_thousand(probe.arg),
                        update_order |-> round_up_to_thousand(probe.arg),
                        renewal_logic |-> round_to_thousands(probe.arg)]>>]
    /\ UNCHANGED <<order_list, product_price, supply_price, now, add_data, upd_data,
                   last, prev, nops, webhook>>

SpecRound == InitRound /\ [][ProbeRound]_vars

InitDuration ==
    /\ InitNoOrders
    /\ \E t \in Texts : probe = [fn |-> "duration", arg |-> t, res |-> <<>>]

\* the duration each flow derives from one product code: chon_ma_sp_handler and
\* xu_ly_ma_moi_handler (0 for no duration), extend_order and run_renewal (None)
ProbeDuration ==
    /\ probe.fn = "duration" /\ probe.res = <<>>
    /\ probe' = [probe EXCEPT !.res =
                     <<[add_chon |-> extract_days_from_ma_sp(probe.arg),
                        add_moi |-> extract_days_from_ma_sp(ReplaceDashByDouble(probe.arg)),
                        extend |-> ExtendDays(probe.arg),
                        renewal |-> RenewalDays(probe.arg)]>>]
    /\ UNCHANGED <<order_list, product_price, supply_price, now, add_data, upd_data,
                   last, prev, nops, webhook>>

SpecDuration == InitDuration /\ [][ProbeDuration]_vars

\* start dates as the flows pass them (dd/mm/YYYY fields): days at the start, in
\* the middle and at the end of every month of 2023 and 2024, and texts that are
\* no date
StartTexts == {<<d, m, y>> : d \in {1, 15, 27, 28, 29, 30, 31}, m \in 1..12, y \in {2023, 2024}} \cup {<<>>, <<2024, 1, 27>>}
DurationDays == {30, 60, 365}

InitExpiry ==
    /\ InitNoOrders
    /\ \E t \in StartTexts, n \in DurationDays :
          probe = [fn |-> "tinh_ngay_het_han", arg |-> [start |-> t, so_ngay |-> n], res |-> <<>>]

\* add_order.tinh_ngay_het_han on one start date and number of days
ProbeExpiry ==
    /\ probe.fn = "tinh_ngay_het_han" /\ probe.res = <<>>
    /\ probe' = [probe EXCEPT !.res = <<add_tinh_ngay_het_han(probe.arg.start, probe.arg.so_ngay)>>]
    /\ UNCHANGED <<order_list, product_price, supply_price, now, add_data, upd_data,
                   last, prev, nops, webhook>>

SpecExpiry == InitExpiry /\ [][ProbeExpiry]_vars

\* pieces of payment descriptions: codes of eight and of seven characters, one
\* with lower-case letters after MAV, a lower-case one, and separators
MaxPieces == 3
CodePieces == {<<"M", "A", "V", "1", "1", "1", "1", "1">>, <<"M", "A", "V", "0", "0", "0", "0">>,
               <<"M", "A", "V", "l", "1", "1", "1", "1">>, <<"m", "a", "v", "1", "1", "1", "1", "1">>,
               <<" ">>, <<"x">>, <<"_">>, <<"-">>}

RECURSIVE Flatten(_)
Flatten(ps) == IF ps = <<>> THEN <<>> ELSE Head(ps) \o Flatten(Tail(ps))

InitExtract ==
    /\ InitNoOrders
    /\ \E ps \in UNION {[1..n -> CodePieces] : n \in 0..MaxPieces} :
          probe = [fn |-> "extract_ma_don", arg |-> Flatten(ps), res |-> <<>>]

\* extract_ma_don on one payment description
ProbeExtract ==
    /\ probe.fn = "extract_ma_don" /\ probe.res = <<>>
    /\ probe' = [probe EXCEPT !.res = <<extract_ma_don(probe.arg)>>]
    /\ UNCHANGED <<order_list, product_price, supply_price, now, add_data, upd_data,
                   last, prev, nops, webhook>>

SpecExtract == InitExtract /\ [][ProbeExtract]_vars


(***************************************************************************)
(* Properties                                                              *)
(***************************************************************************)
\* the stored row an operation's order code names, in the table ol (0: none)
RowIndex(ol, ma_don) ==
    IF \E i \in DbIds : ol[i] # None /\ Val(ol[i]).ma_don = ma_don
    THEN CHOOSE i \in DbIds : ol[i] # None /\ Val(ol[i]).ma_don = ma_don
    ELSE 0

LastIndex == RowIndex(last.before, last.arg)
OldRow == Val(last.before[LastIndex])
NewRow == Val(order_list[LastIndex])

\* the numbers N of the suffixes "--Nm" a product code contains
SuffixMonths(s) ==
    {IntOf(s, p[1] + 2, p[2]) :
        p \in {q \in (1..Len(s)) \X (1..Len(s)) :
                  /\ q[1] + 2 <= q[2] /\ q[2] < Len(s)
                  /\ s[q[1]] = "-" /\ s[q[1] + 1] = "-"
                  /\ \A k \in (q[1] + 2)..q[2] : s[k] \in Digits
                  /\ s[q[2] + 1] = "m"}}

DurationOf(N) == IF N = 12 THEN 365 ELSE 30 * N

RenewedTwice ==
    /\ prev.op = "run_renewal" /\ prev.kind = "renewal"
    /\ last.op = "run_renewal" /\ last.arg = prev.arg
    /\ last.clock.day = prev.clock.day

SecondCallSkipped ==
    /\ last.ret[1] = FALSE /\ last.ret[3] = "skipped"
    /\ order_list = last.before

\* C1 as stated: when a call of run_renewal returned (True, _, "renewal"), the next
\* call for the same order on the same day, with nothing in between, returns
\* (False, _, "skipped") and leaves the row unchanged.
C1_SecondCallSkipped == RenewedTwice => SecondCallSkipped

\* C1 amended: the same, for a first call that wrote an expiry date at least 6
\* days after today; an order that expired long ago, or one renewed for 0 days,
\* is renewed again by the second call.
C1_SecondCallSkippedWhenRenewedAhead ==
    (/\ RenewedTwice
     /\ Val(OldRow.het_han) - last.clock.day >= 6)
    => SecondCallSkipped

C1_Witness ==
    /\ RenewedTwice /\ SecondCallSkipped
    /\ Val(OldRow.het_han) = Val(Val(prev.before[LastIndex]).het_han) + 31

\* C2 as stated: an order whose expiry date is more than 4 days after today's
\* date is skipped by run_renewal at any time of day, and nothing is written.
C2_SkippedBeyondFourDays ==
    (/\ last.op = "run_renewal" /\ LastIndex # 0
     /\ SuffixMonths(OldRow.san_pham) # {}
     /\ Val(OldRow.het_han) - last.clock.day > 4)
    => (last.ret[3] = "skipped" /\ order_list = last.before)

\* C3 as stated: a successful run_renewal of an order with at most 4 days to its
\* expiry date whose product name carries "--Nm" writes, in one UPDATE of that
\* row, registration date = old expiry + 1 day, duration D (365 for N = 12, else
\* 30 N), expiry = old expiry + 1 + D days, the unpaid status and a false check
\* flag.
C3_RenewalWrites ==
    (/\ last.op = "run_renewal" /\ last.ret[1] = TRUE
     /\ SuffixMonths(OldRow.san_pham) # {}
     /\ Val(OldRow.het_han) - last.clock.day <= 4)
    => /\ LastIndex # 0
       /\ \E N \in SuffixMonths(OldRow.san_pham) :
             /\ NewRow.ngay_dang_ki = Some(Val(OldRow.het_han) + 1)
             /\ NewRow.so_ngay = DurationOf(N)
             /\ NewRow.het_han = Some(Val(OldRow.het_han) + 1 + DurationOf(N))
       /\ NewRow.tinh_trang = UNPAID
       /\ NewRow.check_flag = "FALSE"
       /\ \A f \in {"ma_don", "san_pham", "nguon"} : NewRow[f] = OldRow[f]
       /\ \A j \in DbIds \ {LastIndex} : order_list[j] = last.before[j]

\* run_renewal or extend_order has just written the row NewRow
Repriced ==
    /\ last.op \in {"run_renewal", "extend_order"}
    /\ last.ret[1] = TRUE
    /\ LastIndex # 0

\* the row an insertion, extension or renewal has just written
Written ==
    /\ last.op \in {"run_renewal", "extend_order", "add_order"}
    /\ last.ret[1] = TRUE
    /\ RowIndex(order_list, last.arg) # 0
WrittenRow == Val(order_list[RowIndex(order_list, last.arg)])

\* ((v + 999) / 1000) * 1000 in integer division
RoundUp(v) == ((v + 999) \div 1000) * 1000

\* the catalogue entry of a product name (0: none) and its pricing data
CatalogId(san_pham) ==
    LET ids == {p \in ProductIds : product_price[p] # None
                    /\ Lower(Val(product_price[p]).san_pham) = Lower(san_pham)}
    IN  IF ids = {} THEN 0 ELSE CHOOSE i \in ids : \A j \in ids : i <= j
Highest(san_pham) ==
    IF CatalogId(san_pham) = 0 THEN None ELSE MaxPrice(CatalogId(san_pham))
HasHighest(san_pham) == Highest(san_pham) # None /\ Val(Highest(san_pham)) > 0
Multiplier(m) == IF m = None THEN 100 ELSE Val(m)
CtvOf(san_pham) == Multiplier(Val(product_price[CatalogId(san_pham)]).pct_ctv)
KhachOf(san_pham) == Multiplier(Val(product_price[CatalogId(san_pham)]).pct_khach)
\* the price the order's own supplier has for the order's product (None: no such row)
OwnPrice(row) ==
    LET ids == {i \in SupplyIds : Lower(SupplyTable[i]) = Lower(row.nguon)}
    IN  IF CatalogId(row.san_pham) = 0 \/ ids = {} THEN None
        ELSE supply_price[<<CatalogId(row.san_pham), CHOOSE i \in ids : TRUE>>]

\* C4 as stated: for an order code with the MAVK prefix, the sale price written
\* by the add flow, extend_order and run_renewal equals the import price written,
\* whatever the pricing data.
C4_PromoSaleIsImport ==
    (Written /\ StartsWith(WrittenRow.ma_don, MAVK))
    => WrittenRow.gia_ban = WrittenRow.gia_nhap

\* C5 as stated: for an order code with the MAVL prefix and a highest supply
\* price H > 0, the sale price written by extend_order and run_renewal is
\* trunc((H x collaborator multiplier) x customer multiplier) rounded up to the
\* next multiple of 1000.
C5_RetailCompounds ==
    (/\ Repriced /\ StartsWith(OldRow.ma_don, MAVL)
     /\ HasHighest(OldRow.san_pham))
    => NewRow.gia_ban =
           RoundUp(MulDivTrunc(Val(Highest(OldRow.san_pham)) * CtvOf(OldRow.san_pham),
                               KhachOf(OldRow.san_pham), 10000))

\* C6 as stated: when the prefix is none of MAVK, MAVC, MAVL, or no highest
\* supply price > 0 exists, the sale price written by extend_order and
\* run_renewal equals the import price written.
C6_FallbackSaleIsImport ==
    (/\ Repriced
     /\ \/ \A t \in {MAVK, MAVC, MAVL} : ~StartsWith(OldRow.ma_don, t)
        \/ ~HasHighest(OldRow.san_pham))
    => NewRow.gia_ban = NewRow.gia_nhap

\* C7 as stated: the import price written by an insertion, extend_order or
\* run_renewal is the unrounded import price (the own supplier's price, the
\* previous import price or the entered one) rounded up: a multiple of 1000, not
\* below the unrounded value and less than 1000 above it; the sale price written
\* is a multiple of 1000.
C7_WrittenPricesRoundedUp ==
    Written =>
       /\ WrittenRow.gia_nhap % 1000 = 0
       /\ WrittenRow.gia_ban % 1000 = 0
       /\ Repriced =>
              \E raw \in {OldRow.gia_nhap} \cup
                          (IF OwnPrice(OldRow) = None THEN {} ELSE {Val(OwnPrice(OldRow))}) :
                  /\ WrittenRow.gia_nhap >= raw
                  /\ WrittenRow.gia_nhap - raw < 1000

TieredSale(row, ctv, khach) ==
    LET H == Val(Highest(row.san_pham))
    IN  IF StartsWith(row.ma_don, MAVC) THEN RoundUp(TruncDiv(H * ctv, 100))
        ELSE RoundUp(MulDivTrunc(H * ctv, khach, 10000))

\* the multipliers as each flow reads them (extend_order reads a stored 0 as 1.0)
FlowMultiplier(m) ==
    IF last.op = "extend_order" /\ m # None /\ Val(m) = 0 THEN 100 ELSE Multiplier(m)

SaleFromHighest ==
    (/\ \E t \in {MAVC, MAVL} : StartsWith(OldRow.ma_don, t)
     /\ HasHighest(OldRow.san_pham))
    => NewRow.gia_ban =
          TieredSale(OldRow,
                     FlowMultiplier(Val(product_price[CatalogId(OldRow.san_pham)]).pct_ctv),
                     FlowMultiplier(Val(product_price[CatalogId(OldRow.san_pham)]).pct_khach))

ImportFromOwnPrice ==
    /\ NewRow.gia_nhap % 1000 = 0
    /\ NewRow.gia_nhap - Val(OwnPrice(OldRow)) < 1000
    /\ Val(OwnPrice(OldRow)) - NewRow.gia_nhap < 1000

\* C10 as stated: in run_renewal and extend_order the sale price of a tiered
\* order is marked up from the highest price any supplier has for the product,
\* and the import price written is (the thousand the flow rounds to of) the price
\* the order's own supplier has for it.
C10_ImportIsOwnPrice ==
    (Repriced /\ OwnPrice(OldRow) # None)
    => (SaleFromHighest /\ ImportFromOwnPrice)

\* C10 amended: the same, where extend_order takes the own supplier's price
\* only when it is positive (for a price of 0 it keeps the previous import
\* price, whereas run_renewal writes 0); the import price never depends on
\* another supplier's price.
C10_ImportIsPositiveOwnPrice ==
    (Repriced /\ OwnPrice(OldRow) # None)
    => /\ SaleFromHighest
       /\ (last.op = "extend_order" => Val(OwnPrice(OldRow)) > 0) => ImportFromOwnPrice

C10_Witness ==
    /\ Repriced /\ StartsWith(OldRow.ma_don, MAVC)
    /\ OwnPrice(OldRow) = Some(45200)
    /\ Highest(OldRow.san_pham) = Some(100000)
    /\ NewRow.gia_ban = 120000
    /\ NewRow.gia_nhap \in {45000, 46000}

\* C8 as stated: for an amount v >= 0 each of the three rounding helpers returns
\* a multiple r of 1000 with r >= v and r - v < 1000 (0 for v = 0).
C8_HelpersRoundUp ==
    (probe.fn = "round" /\ probe.res # <<>>)
    => \A h \in {"add_order", "update_order", "renewal_logic"} :
          LET v == probe.arg
              r == probe.res[1][h]
          IN  /\ r >= v
              /\ r % 1000 = 0
              /\ r - v < 1000
              /\ v = 0 => r = 0

\* C9 as stated: for a product code that contains "--Nm" the add flow,
\* extend_order and run_renewal all derive the duration 365 when N = 12 and
\* 30 N otherwise.
C9_SameDuration ==
    (probe.fn = "duration" /\ probe.res # <<>> /\ SuffixMonths(probe.arg) # {})
    => \E N \in SuffixMonths(probe.arg) :
          /\ probe.res[1].add_chon = DurationOf(N)
          /\ probe.res[1].add_moi = DurationOf(N)
          /\ probe.res[1].extend = Some(DurationOf(N))
          /\ probe.res[1].renewal = Some(DurationOf(N))

\* C11 as stated: in extend_order and run_renewal a stored multiplier enters the
\* price as stored, 0 included, and only a NULL one is read as 1.0: the sale
\* price written for a MAVC or MAVL order with a highest supply price > 0 is the
\* tier formula on the stored multipliers.
C11_MultipliersAsStored ==
    (/\ Repriced
     /\ \E t \in {MAVC, MAVL} : StartsWith(OldRow.ma_don, t)
     /\ HasHighest(OldRow.san_pham))
    => NewRow.gia_ban = TieredSale(OldRow, CtvOf(OldRow.san_pham), KhachOf(OldRow.san_pham))

\* the clean call of run_renewal answered "order not found"
NotFound == last.ret[3] = "error" /\ last.ret[2].text = "order not found"

\* some stored order has the code of the call up to letter case
StoredIgnoringCase ==
    \E i \in DbIds : /\ last.before[i] # None
                     /\ Lower(Val(last.before[i]).ma_don) = Lower(last.arg)

\* C12 as stated: run_renewal finds the order whose stored code equals the given
\* code up to letter case; when no order matches it returns (False, reason,
\* "error") and writes nothing.
C12_LookupIgnoresCase ==
    last.op = "run_renewal"
    => /\ StoredIgnoringCase => ~NotFound
       /\ ~StoredIgnoringCase
          => (last.ret[1] = FALSE /\ last.ret[3] = "error" /\ order_list = last.before)

\* a clean call of run_renewal for a stored order whose product name has no
\* duration pattern
RenewalWithoutDuration ==
    /\ last.op = "run_renewal" /\ LastIndex # 0
    /\ SuffixMonths(OldRow.san_pham) = {}

\* C13 as stated: a renewal of an order whose product name has no duration
\* pattern ends in "error", never in "skipped", and writes nothing, however many
\* days remain until its expiry.
C13_NoDurationAlwaysFails ==
    RenewalWithoutDuration => (last.ret[3] = "error" /\ order_list = last.before)

\* C13 amended: such a renewal writes nothing and ends in "error" when the expiry
\* date is at most 4 days after today; the eligibility test comes first, so an
\* order 6 or more days from its expiry date is "skipped" before the product
\* name is parsed.
C13_NoDurationFailsWhenDue ==
    RenewalWithoutDuration
    => /\ order_list = last.before
       /\ last.ret[1] = FALSE
       /\ last.ret[3] \in {"error", "skipped"}
       /\ Val(OldRow.het_han) - last.clock.day <= 4 => last.ret[3] = "error"
       /\ Val(OldRow.het_han) - last.clock.day >= 6 => last.ret[3] = "skipped"

C13_Witness ==
    /\ RenewalWithoutDuration
    /\ Val(OldRow.het_han) - last.clock.day <= 4
    /\ last.ret = ErrorRet("no duration in product")

\* C14: run_renewal for a stored order without an expiry date returns (False,
\* reason, "error") and writes nothing, and extend_order on an order without an
\* expiry date issues no UPDATE.
C14_MissingExpiryFails ==
    (/\ last.op \in {"run_renewal", "extend_order"}
     /\ LastIndex # 0
     /\ OldRow.het_han = None)
    => /\ last.ret[1] = FALSE
       /\ last.ret[3] = "error"
       /\ order_list = last.before

C14_Witness ==
    /\ last.op = "run_renewal" /\ LastIndex # 0
    /\ OldRow.het_han = None
    /\ last.ret = ErrorRet("invalid expiry date")
    /\ order_list = last.before

\* C15 as stated: the import price run_renewal writes is (the thousand nearest
\* to) the price the order's own supplier has for the product when there is one,
\* and otherwise within 1000 of the order's previous import price.
C15_ImportFallsBackToPrevious ==
    (last.op = "run_renewal" /\ last.ret[1] = TRUE /\ LastIndex # 0)
    => /\ NewRow.gia_nhap % 1000 = 0
       /\ OwnPrice(OldRow) # None => ImportFromOwnPrice
       /\ OwnPrice(OldRow) = None
          => /\ NewRow.gia_nhap - OldRow.gia_nhap < 1000
             /\ OldRow.gia_nhap - NewRow.gia_nhap < 1000

\* a call of run_renewal whose UPDATE failed
UpdateFailed ==
    last.op = "run_renewal_db_failure" /\ last.ret[2].text = "update_order"

\* the row of the call holds all seven columns of the renewal
SevenColumnsWritten ==
    /\ LastIndex # 0
    /\ last.ret[3] = "renewal"
    /\ NewRow = [OldRow EXCEPT
                    !.ngay_dang_ki = Some(Val(OldRow.het_han) + 1),
                    !.so_ngay = Val(RenewalDays(OldRow.san_pham)),
                    !.het_han = Some(Val(OldRow.het_han) + 1 + Val(RenewalDays(OldRow.san_pham))),
                    !.gia_nhap = last.ret[2].GIA_NHAP,
                    !.gia_ban = last.ret[2].GIA_BAN,
                    !.tinh_trang = UNPAID,
                    !.check_flag = "FALSE"]

\* C16: when the UPDATE of run_renewal fails, run_renewal returns (False, message
\* naming the error, "error") and the order row is as before the call; after any
\* call the row is either as before or holds all seven columns of the renewal.
C16_FailedUpdateChangesNothing ==
    /\ UpdateFailed
       => (last.ret[1] = FALSE /\ last.ret[3] = "error" /\ order_list = last.before)
    /\ last.op \in {"run_renewal", "run_renewal_db_failure"}
       => (order_list = last.before \/ SevenColumnsWritten)

C16_Witness ==
    /\ UpdateFailed
    /\ LastIndex # 0 /\ OldRow.san_pham = P1M
    /\ OldRow.het_han = Some(Day0 + 3)
    /\ order_list = last.before

\* C17 as stated: whichever database call of run_renewal fails (order lookup,
\* product profile, supplier id, supplier price, highest price, persist),
\* run_renewal raises nothing and returns (False, reason, "error").
C17_NeverRaises ==
    last.op = "run_renewal_db_failure"
    => (last.ret[1] = FALSE /\ last.ret[3] = "error")

\* the failing call was one of the lookups of the price computation
PriceLookupFailed ==
    /\ last.op = "run_renewal_db_failure"
    /\ last.ret[2].text \in {"get_product_record", "get_source_id", "get_source_price", "get_highest_price"}

\* C18 as stated: an exception raised while run_renewal looks up the multipliers
\* or the supply prices does not leave run_renewal: the renewal is carried out
\* with sale price = import price.
C18_LookupFailureFallsBack ==
    PriceLookupFailed
    => /\ last.ret[3] = "renewal"
       /\ LastIndex # 0
       /\ NewRow.gia_ban = NewRow.gia_nhap

\* run_renewal returned a value to its caller
RenewalReturned ==
    /\ last.op \in {"run_renewal", "run_renewal_db_failure"}
    /\ last.ret[3] # "raised"

\* C19: every value run_renewal returns is a triple (success, details, kind)
\* with kind one of "renewal", "skipped", "error"; success is True exactly when
\* kind is "renewal"; details is the structured record exactly when success is
\* True and a message otherwise; the order row was written exactly when kind is
\* "renewal".
C19_TriStateResult ==
    RenewalReturned
    => /\ Len(last.ret) = 3
       /\ last.ret[3] \in {"renewal", "skipped", "error"}
       /\ last.ret[1] \in BOOLEAN
       /\ last.ret[1] <=> last.ret[3] = "renewal"
       /\ last.ret[1] <=> "ID_DON_HANG" \in DOMAIN last.ret[2]
       /\ ~last.ret[1] <=> DOMAIN last.ret[2] = {"text"}
       /\ last.ret[3] = "renewal" <=> order_list # last.before
       /\ last.ret[3] = "renewal" => SevenColumnsWritten

C19_Witness ==
    /\ RenewalReturned
    /\ last.ret = <<TRUE, last.ret[2], "renewal">>
    /\ last.ret[2].ID_DON_HANG = last.arg
    /\ order_list # last.before
    /\ prev.op \in {"run_renewal", "run_renewal_db_failure"}
    /\ prev.kind \in {"skipped", "error"}

\* C20 as stated: every POST to the payment webhook is answered with HTTP 200,
\* whatever its payload and whatever becomes of the processing it schedules,
\* and the answer is given without waiting for the worker thread.
C20_AlwaysAnswers200 ==
    webhook.request # None => webhook.response = Some(200)

\* the workers that have not yet reached the INSERT of their receipt
AtReceipt == {w \in DOMAIN webhook.workers : webhook.workers[w].pc = "receipt"}

\* every worker attempts its INSERT once, and before its first run_renewal
OneInsertFirst ==
    \A w \in DOMAIN webhook.workers :
        /\ webhook.workers[w].inserts <= 1
        /\ (webhook.workers[w].mapping /\ webhook.workers[w].pc = "loop")
           => webhook.workers[w].inserts = 1
        /\ webhook.workers[w].calls > 0 => webhook.workers[w].inserts = 1

\* the receipt log only grows: the rows it had are the first rows it has
ReceiptsAppendOnly ==
    /\ Len(webhook'.receipts) >= Len(webhook.receipts)
    /\ SubSeq(webhook'.receipts, 1, Len(webhook.receipts)) = webhook.receipts

\* C21: every webhook event (a JSON object, or the empty one taken for an empty
\* payload) makes its worker attempt exactly one INSERT into payment_receipt,
\* before any run_renewal of that worker; no step of the webhook or of the
\* renewal changes or removes a receipt row; so the events processed so far
\* have left one row each, less the INSERTs that failed, and k deliveries of
\* one event leave k rows.
C21_OneReceiptPerEvent ==
    /\ [](/\ OneInsertFirst
          /\ webhook.inserts = webhook.events - Cardinality(AtReceipt)
          /\ Len(webhook.receipts) = webhook.inserts - webhook.failed)
    /\ [][ReceiptsAppendOnly]_vars

C21_Witness ==
    /\ webhook.events = 2 /\ webhook.failed = 0
    /\ Len(webhook.receipts) = 2
    /\ webhook.receipts[1] = webhook.receipts[2]
    /\ webhook.receipts[1].ma_don_hang # <<>>
    /\ last.op = "run_renewal" /\ order_list # last.before

\* the words of a text: its maximal runs of word characters, as <<first, last>>
WordsOf(s) ==
    {<<i, e>> \in (1..Len(s)) \X (1..Len(s)) :
        /\ i <= e
        /\ \A k \in i..e : s[k] \in WordChars
        /\ (i = 1 \/ s[i - 1] \notin WordChars)
        /\ (e = Len(s) \/ s[e + 1] \notin WordChars)}

\* where MAV first occurs in the word s[i..e], 0 when it does not
FirstMAV(s, i, e) ==
    IF \E k \in i..(e - 2) : SubSeq(s, k, k + 2) = <<"M", "A", "V">>
    THEN CHOOSE k \in i..(e - 2) : /\ SubSeq(s, k, k + 2) = <<"M", "A", "V">>
                                   /\ \A j \in i..(k - 1) : SubSeq(s, j, j + 2) # <<"M", "A", "V">>
    ELSE 0

\* the codes occurring in a text: in every word, MAV and what follows it, when
\* at least five word characters follow
CodesIn(s) ==
    {Upper(SubSeq(s, FirstMAV(s, w[1], w[2]), w[2])) :
        w \in {v \in WordsOf(s) : /\ FirstMAV(s, v[1], v[2]) # 0
                                  /\ v[2] - FirstMAV(s, v[1], v[2]) >= 7}}

\* C22: extract_ma_don(text) is the list, in ascending order and without
\* duplicates, of the codes occurring in text (MAV followed by at least five word
\* characters), in upper case; a text whose only word with MAV in it is one
\* such code yields exactly that code.
C22_ExtractsExactlyTheCodes ==
    (probe.fn = "extract_ma_don" /\ probe.res # <<>>)
    => /\ {probe.res[1][k] : k \in DOMAIN probe.res[1]} = CodesIn(probe.arg)
       /\ Len(probe.res[1]) = Cardinality(CodesIn(probe.arg))
       /\ \A k \in 1..(Len(probe.res[1]) - 1) : TextLess(probe.res[1][k], probe.res[1][k + 1])
       /\ \A w \in WordsOf(probe.arg) :
             ( /\ w[2] - w[1] >= 7
               /\ SubSeq(probe.arg, w[1], w[1] + 2) = <<"M", "A", "V">>
               /\ \A v \in WordsOf(probe.arg) \ {w} : FirstMAV(probe.arg, v[1], v[2]) = 0 )
             => probe.res[1] = <<Upper(SubSeq(probe.arg, w[1], w[2]))>>

C22_Witness ==
    /\ probe.fn = "extract_ma_don"
    /\ probe.arg = <<"x", " ">> \o <<"M", "A", "V", "l", "1", "1", "1", "1">>
    /\ probe.res = << <<(<<"M", "A", "V", "L", "1", "1", "1", "1">>)>> >>

\* the last call of _sync_payment_supply that got past its guard
LastSync == webhook.syncs[Len(webhook.syncs)]

\* the newest record the supplier of the last call had when it was made, 0 for none
SyncedRecord == latest_payment(LastSync.before, LastSync.source_id)

\* the last call found the supplier's newest record pending
FoundPending == SyncedRecord # 0 /\ is_pending(LastSync.before[SyncedRecord].status)

\* the last call added the amount to the import of the record it found
ToppedUp ==
    webhook.payment_supply = [LastSync.before EXCEPT ![SyncedRecord].import = @ + LastSync.amount]

\* the last call inserted one record for the amount, dated today
InsertedRecord ==
    /\ Len(webhook.payment_supply) = Len(LastSync.before) + 1
    /\ SubSeq(webhook.payment_supply, 1, Len(LastSync.before)) = LastSync.before
    /\ webhook.payment_supply[Len(webhook.payment_supply)].source_id = LastSync.source_id
    /\ webhook.payment_supply[Len(webhook.payment_supply)].import = LastSync.amount
    /\ webhook.payment_supply[Len(webhook.payment_supply)].round = FormatDMY(LastSync.today)

\* C23 as stated: a call of _sync_payment_supply for a supplier and a positive
\* amount tops up the supplier's newest record when that record is pending, and
\* otherwise inserts a record for the amount, dated today, that is itself
\* pending.
C23_InsertsPendingOrTopsUp ==
    webhook.syncs # <<>>
    => IF FoundPending THEN ToppedUp
       ELSE /\ InsertedRecord
            /\ is_pending(webhook.payment_supply[Len(webhook.payment_supply)].status)

\* what C23 leaves when the status of the inserted record is left aside
C23_InsertsOrTopsUp ==
    webhook.syncs # <<>> => IF FoundPending THEN ToppedUp ELSE InsertedRecord

\* the records of a supplier
RecordsOf(ps, source_id) == {k \in DOMAIN ps : ps[k].source_id = source_id}

\* C28 as stated: when a supplier without any payment_supply record is named by
\* two successive events with positive amounts a1 and a2, the supplier ends
\* with exactly one record, pending, whose import is a1 + a2.
C28_SecondEventTopsUp ==
    ( /\ Len(webhook.syncs) = 2
      /\ webhook.syncs[1].source_id = webhook.syncs[2].source_id
      /\ RecordsOf(webhook.syncs[1].before, webhook.syncs[1].source_id) = {} )
    => /\ Cardinality(RecordsOf(webhook.payment_supply, LastSync.source_id)) = 1
       /\ \A k \in RecordsOf(webhook.payment_supply, LastSync.source_id) :
             /\ is_pending(webhook.payment_supply[k].status)
             /\ webhook.payment_supply[k].import = webhook.syncs[1].amount + webhook.syncs[2].amount

\* the stored orders that have both dates
Dated == {i \in DbIds : /\ order_list[i] # None
                        /\ Val(order_list[i]).ngay_dang_ki # None
                        /\ Val(order_list[i]).het_han # None}

\* C24 as stated: in every reachable state every order has expiry = registration
\* + number of days under one fixed offset convention (the expiry counted as
\* the last day of the period or as the day after it), whatever sequence of
\* add-order, run_renewal, extend_order and edits of the number of days led there.
C24_ExpiryIsRegistrationPlusDays ==
    \E offset \in {-1, 0} :
        \A i \in Dated :
            Val(Val(order_list[i]).het_han)
                = Val(Val(order_list[i]).ngay_dang_ki) + Val(order_list[i]).so_ngay + offset

\* at least two run_renewal calls were started and all have returned
AllReturned ==
    /\ Len(webhook.renewals) >= 2
    /\ \A t \in DOMAIN webhook.renewals : webhook.renewals[t].pc = "done"

\* the row of the order as the first call found it on entry
RaceOld == Val(webhook.renewals[1].old)

\* the row of that order now
RaceRow == Val(fetch_order(webhook.renewals[1].order_id))

\* C25: when concurrent run_renewal calls for one order (0 to 4 days from its
\* expiry, duration of 30 days or more) have all returned, however their reads
\* and writes interleaved, the order's expiry is the old expiry + 1 day + the
\* duration and its registration date the old expiry + 1 day: one period was
\* added, not two.
C25_ConcurrentCallsRenewOnce ==
    AllReturned
    => /\ RaceRow.het_han = Some(Val(RaceOld.het_han) + 1 + Val(RenewalDays(RaceOld.san_pham)))
       /\ RaceRow.ngay_dang_ki = Some(Val(RaceOld.het_han) + 1)
       /\ RaceRow.so_ngay = Val(RenewalDays(RaceOld.san_pham))

\* both calls read the row before either wrote, and both wrote
C25_Witness ==
    /\ AllReturned
    /\ webhook.renewals[1].ret[3] = "renewal"
    /\ webhook.renewals[2].ret[3] = "renewal"
    /\ RaceRow.het_han = Some(Val(RaceOld.het_han) + 31)

\* the order codes of the add-order flow: the one being entered and the stored ones
WellFormedCode(c) ==
    /\ Len(c) = 11
    /\ SubSeq(c, 1, 4) \in Prefixes
    /\ \A k \in 5..11 : c[k] \in Digits \cup UpperLetters

\* C26 as stated: generate_unique_id returns 11 characters, a prefix of four
\* (MAVL for 'le', MAVC for 'ctv', MAVK for 'mavk', else MAVX) and seven random
\* ones, and no two orders ever carry the same code.
C26_CodesAreUnique ==
    /\ add_data.state # "END" => WellFormedCode(add_data.ma_don)
    /\ \A i, j \in DbIds :
          (i # j /\ order_list[i] # None /\ order_list[j] # None)
          => Val(order_list[i]).ma_don # Val(order_list[j]).ma_don

\* the format alone
C26_CodesAreWellFormed ==
    /\ add_data.state # "END" => WellFormedCode(add_data.ma_don)
    /\ \A i \in DbIds : order_list[i] # None => WellFormedCode(Val(order_list[i]).ma_don)

\* the notification attempted last
LastNote == webhook.notes[Len(webhook.notes)]

\* C27: for every order code of a webhook, once run_renewal has returned the
\* worker attempts exactly one notification: the rich success notification
\* exactly when the result is (True, non-empty details, "renewal"), otherwise
\* the status notification carrying the kind of the result; when the attempt
\* fails the worker goes on and the renewal stays written.
C27_OneNotificationPerResult ==
    /\ \A w \in DOMAIN webhook.workers :
          webhook.workers[w].notes = webhook.workers[w].returned
    /\ RenewalReturned
       => /\ webhook.notes # <<>>
          /\ LastNote.ma_don = last.arg
          /\ LastNote.fn = "success"
             <=> (last.ret[1] /\ last.ret[3] = "renewal" /\ DOMAIN last.ret[2] # {})
          /\ LastNote.fn \in {"success", "status"}
          /\ LastNote.fn = "status" => LastNote.status = last.ret[3]
          /\ (last.ret[3] = "renewal" /\ ~LastNote.delivered) => SevenColumnsWritten

C27_Witness ==
    /\ RenewalReturned
    /\ Len(webhook.notes) = 2
    /\ webhook.notes[1].fn = "success" /\ ~webhook.notes[1].delivered
    /\ webhook.notes[2].fn = "status" /\ webhook.notes[2].status = "skipped"
    /\ webhook.notes[1].ma_don = webhook.notes[2].ma_don
    /\ order_list = last.before

\* the expiry computation was applied to a start date and a number of days
ExpiryComputed == probe.fn = "tinh_ngay_het_han" /\ probe.res # <<>>

\* C29 as stated: add_order.tinh_ngay_het_han maps every valid start date X and
\* a duration of 30 days to the date exactly 30 days after X, and a start that is
\* no date to the failure sentinel None.
C29_ThirtyDaysLater ==
    ExpiryComputed
    => /\ (ParseDMY(probe.arg.start) # None /\ probe.arg.so_ngay = 30)
          => probe.res[1] = Some(Val(ParseDMY(probe.arg.start)) + 30)
       /\ ParseDMY(probe.arg.start) = None => probe.res[1] = None

\* what holds of it: a start that is no date yields None, and 30 days from a valid
\* start X end between X + 27 and X + 30
C29_AboutThirtyDaysLater ==
    ExpiryComputed
    => /\ (ParseDMY(probe.arg.start) # None /\ probe.arg.so_ngay = 30)
          => /\ probe.res[1] # None
             /\ Val(probe.res[1]) - Val(ParseDMY(probe.arg.start)) \in 27..30
       /\ ParseDMY(probe.arg.start) = None => probe.res[1] = None

\* the cached records manual extension can act on whose row still has the expiry
\* and the product the record was read with
SameAsStored ==
    {k \in DOMAIN upd_data.matched_orders :
        /\ order_list[upd_data.matched_orders[k].db_id] # None
        /\ Val(order_list[upd_data.matched_orders[k].db_id]).het_han = upd_data.matched_orders[k].het_han
        /\ Val(order_list[upd_data.matched_orders[k].db_id]).san_pham = upd_data.matched_orders[k].san_pham
        /\ Val(order_list[upd_data.matched_orders[k].db_id]).ma_don = upd_data.matched_orders[k].ma_don}

\* what run_renewal and extend_order would write for the same order: the same
\* registration date, the day after the old expiry, and the same number of days
SameNewPeriod(order, renewal, extension) ==
    (renewal # None /\ extension # None)
    => /\ Val(renewal).ngay_dang_ki = Some(Val(order.het_han) + 1)
       /\ Val(extension).ngay_dang_ki = Some(Val(order.het_han) + 1)
       /\ Val(renewal).so_ngay = Val(extension).so_ngay

\* the columns run_renewal would have written to the row the last operation found
RenewalOfOldRow == renew_fetched(last.arg, Some(OldRow)).update

\* C30: for the same order (same old expiry and product name) extend_order and
\* run_renewal set the new registration date to the old expiry + 1 day and the
\* same number of days, so in either path the new period starts the day after
\* the old one ends; and that is what each of them has written after it ran on a
\* row the other path has not renewed in between.
C30_SameStartAndDuration ==
    /\ \A k \in SameAsStored :
          SameNewPeriod(upd_data.matched_orders[k],
                        run_renewal(upd_data.matched_orders[k].ma_don).update,
                        extend_order(upd_data.matched_orders[k]))
    /\ \A i \in DbIds :
          (order_list[i] # None /\ Val(order_list[i]).het_han # None)
          => RenewalDays(Val(order_list[i]).san_pham) = ExtendDays(Val(order_list[i]).san_pham)
    /\ (last.op = "run_renewal" /\ last.ret[1])
       => /\ NewRow.ngay_dang_ki = Some(Val(OldRow.het_han) + 1)
          /\ NewRow.so_ngay = Val(ExtendDays(OldRow.san_pham))
    /\ (last.op = "extend_order" /\ last.ret[1] /\ OldRow.tinh_trang = PAID)
       => /\ NewRow.ngay_dang_ki = Some(Val(OldRow.het_han) + 1)
          /\ NewRow.so_ngay = Val(RenewalDays(OldRow.san_pham))
          /\ RenewalOfOldRow # None
             => /\ NewRow.ngay_dang_ki = Val(RenewalOfOldRow).ngay_dang_ki
                /\ NewRow.so_ngay = Val(RenewalOfOldRow).so_ngay

\* extend_order has extended an order that run_renewal would have renewed
C30_Witness ==
    /\ last.op = "extend_order" /\ last.ret[1] /\ OldRow.tinh_trang = PAID
    /\ RenewalOfOldRow # None
    /\ NewRow.ngay_dang_ki = Some(Val(OldRow.het_han) + 1)

\* worker w leaves process_payment_payload in this step
Exits(w) ==
    /\ w \in DOMAIN webhook.workers
    /\ webhook'.workers = SubSeq(webhook.workers, 1, w - 1) \o SubSeq(webhook.workers, w + 1, Len(webhook.workers))

\* worker w passes the receipt and the supplier part in this step
PassesReceipt(w) ==
    /\ w \in DOMAIN webhook.workers /\ w \in DOMAIN webhook'.workers
    /\ webhook.workers[w].pc = "receipt"
    /\ webhook'.workers[w].pc = "loop"

\* every worker is inside the try of process_payment_payload
InsideTry == \A w \in DOMAIN webhook.workers : webhook.workers[w].pc \in {"receipt", "loop"}

\* a failed receipt or supplier part leaves all extracted codes to the loop
FailureKeepsCodes ==
    (webhook'.failed > webhook.failed \/ webhook'.sync_failed > webhook.sync_failed)
    => \A w \in DOMAIN webhook.workers :
          PassesReceipt(w) => webhook'.workers[w].codes = extract_ma_don(webhook.workers[w].body.content)

\* a worker leaves by returning, and unless run_renewal raised in it, after one
\* call of run_renewal for each extracted code
ReturnsAfterAllCodes ==
    \A w \in DOMAIN webhook.workers :
       Exits(w) => /\ webhook.workers[w].pc = "loop"
                   /\ webhook.workers[w].calls = webhook.workers[w].returned
                      => webhook.workers[w].calls = Len(ma_don_list(webhook.workers[w].body))

\* C31: process_payment_payload never propagates an exception to its worker
\* thread: a worker is always inside the function's try and leaves it only by
\* returning; and a failure while logging the receipt or while synchronising the
\* payment-supply record leaves every extracted order code to the loop, which
\* calls run_renewal for each of them.
C31_FailuresBeforeLoopAreCaught ==
    /\ []InsideTry
    /\ [][FailureKeepsCodes]_vars
    /\ [][ReturnsAfterAllCodes]_vars

\* a worker has called run_renewal for its code after its receipt and its
\* supplier part both failed
C31_Witness ==
    /\ webhook.failed > 0 /\ webhook.sync_failed > 0 /\ webhook.events = 1
    /\ \E w \in DOMAIN webhook.workers :
          /\ webhook.workers[w].codes = <<>>
          /\ webhook.workers[w].returned = Len(ma_don_list(webhook.workers[w].body))
          /\ webhook.workers[w].returned >= 1

\* C32: for a webhook whose text contains several order codes, run_renewal is
\* attempted once for every extracted code, whatever the outcome of another
\* code's renewal, a database failure during its lookups included: a worker
\* leaves process_payment_payload only after as many calls of run_renewal as
\* codes were extracted.
C32_EveryCodeAttempted ==
    [][\A w \in DOMAIN webhook.workers :
          Exits(w) => webhook.workers[w].calls = Len(ma_don_list(webhook.workers[w].body))]_vars

\* the same for workers in which every call of run_renewal returned: they made
\* one call for each extracted code
C32_EveryCodeAttemptedIfReturned ==
    [][\A w \in DOMAIN webhook.workers :
          (Exits(w) /\ webhook.workers[w].calls = webhook.workers[w].returned)
          => webhook.workers[w].calls = Len(ma_don_list(webhook.workers[w].body))]_vars

\* the run_renewal calls that have returned (True, _, "renewal")
RenewedCalls ==
    {t \in DOMAIN webhook.renewals :
        /\ webhook.renewals[t].pc = "done"
        /\ webhook.renewals[t].ret[1]
        /\ webhook.renewals[t].ret[3] = "renewal"}

\* C33: across concurrent deliveries of the same webhook for the same eligible
\* order, at most one run_renewal call returns (True, _, "renewal"), so at most
\* one success notification is sent for that renewal period.
C33_AtMostOneRenewal ==
    (\A t \in DOMAIN webhook.renewals : webhook.renewals[t].order_id = webhook.renewals[1].order_id)
    => Cardinality(RenewedCalls) <= 1

\* the calls that return "renewal" all entered run_renewal on the same row: a
\* call started after a renewal was written does not return "renewal"
C33_LaterReadSkips ==
    \A t \in RenewedCalls :
       \A u \in RenewedCalls : webhook.renewals[t].old = webhook.renewals[u].old

\* two calls of _sync_payment_supply for one supplier whose newest record was
\* pending when the first of them started have both returned
BothToppedUp ==
    /\ Len(webhook.syncing) = 2
    /\ \A t \in DOMAIN webhook.syncing : webhook.syncing[t].pc = "done"
    /\ webhook.syncing[1].source_id = webhook.syncing[2].source_id
    /\ latest_payment(webhook.syncing[1].before, webhook.syncing[1].source_id) # 0
    /\ is_pending(webhook.syncing[1].before[latest_payment(webhook.syncing[1].before, webhook.syncing[1].source_id)].status)

\* the import of that record when the first call started, and now
ImportBefore == webhook.syncing[1].before[latest_payment(webhook.syncing[1].before, webhook.syncing[1].source_id)].import
ImportAfter == webhook.payment_supply[latest_payment(webhook.syncing[1].before, webhook.syncing[1].source_id)].import

\* C34: when two webhook workers concurrently top up the same pending
\* payment-supply record with amounts a1 and a2, under every interleaving of
\* their SELECT and UPDATE steps the record's final import is the initial import
\* + a1 + a2: no top-up is lost.
C34_NoTopUpLost ==
    BothToppedUp => ImportAfter = ImportBefore + webhook.syncing[1].amount + webhook.syncing[2].amount

\* whatever the interleaving, at least one top-up is in the record and no row is added
C34_LastTopUpKept ==
    BothToppedUp
    => /\ ImportAfter \in {ImportBefore + webhook.syncing[1].amount + webhook.syncing[2].amount,
                           ImportBefore + webhook.syncing[1].amount,
                           ImportBefore + webhook.syncing[2].amount}
       /\ Len(webhook.payment_supply) = Len(webhook.syncing[1].before)

\* extend_order has written the row of the selected order
Extended == last.op = "extend_order" /\ last.ret[1] /\ LastIndex # 0

\* C35: extend_order computes the new period from the order's expiry as stored
\* in the database when it runs: the extended row starts the day after the
\* expiry the row had just before, also when run_renewal renewed the order
\* between the search and the extension, and it ends later than that expiry, so
\* neither extension is lost or overwritten.
C35_ExtendsFromStoredExpiry ==
    Extended
    => /\ NewRow.ngay_dang_ki = Some(Val(OldRow.het_han) + 1)
       /\ Val(NewRow.het_han) > Val(OldRow.het_han)

\* the extension starts the day after the expiry the search had read, which is
\* the stored one unless run_renewal has renewed the order since
C35_ExtendsFromStoredExpiryIfNotRenewed ==
    (Extended /\ OldRow.tinh_trang = PAID)
    => /\ NewRow.ngay_dang_ki = Some(Val(OldRow.het_han) + 1)
       /\ Val(NewRow.het_han) > Val(OldRow.het_han)

\* C36: after every successful run_renewal the renewed order (status unpaid,
\* check flag false) is among the orders fetch_unpaid_orders returns, like a
\* freshly created unpaid order.
C36_RenewedOrderIsListedUnpaid ==
    (last.op = "run_renewal" /\ last.ret[1] /\ last.ret[3] = "renewal")
    => /\ NewRow.tinh_trang = UNPAID
       /\ NewRow.check_flag = "FALSE"
       /\ last.arg \in fetch_unpaid_orders(order_list)

\* a freshly created order is unpaid with no check flag and is listed
C36_CreatedOrderIsListedUnpaid ==
    last.op = "add_order" => last.arg \in fetch_unpaid_orders(order_list)

\* the rows the last operation changed
Changed == {i \in DbIds : order_list[i] # last.before[i]}

\* row i has kept the columns neither operation writes
KeptColumns(i) ==
    /\ order_list[i] # None /\ last.before[i] # None
    /\ Val(order_list[i]).ma_don = Val(last.before[i]).ma_don
    /\ Val(order_list[i]).san_pham = Val(last.before[i]).san_pham
    /\ Val(order_list[i]).nguon = Val(last.before[i]).nguon

\* the order codes of the table the last operation found are all different
CodesWereUnique ==
    \A i \in DbIds : \A j \in DbIds :
       (i # j /\ last.before[i] # None /\ last.before[j] # None)
       => Val(last.before[i]).ma_don # Val(last.before[j]).ma_don

\* what extend_order and run_renewal may have changed
FrameOfLast ==
    /\ (last.op = "extend_order" /\ last.ret[1])
       => /\ Cardinality(Changed) <= 1
          /\ \A i \in Changed : /\ KeptColumns(i)
                                /\ Val(order_list[i]).tinh_trang = Val(last.before[i]).tinh_trang
                                /\ Val(order_list[i]).check_flag = Val(last.before[i]).check_flag
    /\ (last.op = "run_renewal" /\ last.ret[1] /\ last.ret[3] = "renewal")
       => /\ Cardinality(Changed) <= 1
          /\ \A i \in Changed : /\ KeptColumns(i)
                                /\ Val(order_list[i]).tinh_trang = UNPAID
                                /\ Val(order_list[i]).check_flag = "FALSE"

\* C37: extend_order changes only registration date, duration, expiry, import
\* price and sale price of the selected order and leaves its payment status,
\* check flag and all other columns unchanged; run_renewal additionally resets
\* status to unpaid and the check flag to false; neither operation touches any
\* other order row.
C37_OnlyTheSelectedOrderChanges == FrameOfLast

\* the same when no two stored orders share their code
C37_OnlyTheSelectedOrderChangesIfCodesUnique == CodesWereUnique => FrameOfLast

\* the rows hoan_tat_don has just inserted
Inserted == {i \in DbIds : last.op = "add_order" /\ last.before[i] = None /\ order_list[i] # None}

\* C38: every order inserted by the add-order flow has an expiry date that is
\* not earlier than its registration date, also when the product code carries
\* no duration suffix and the duration defaults to 0 days.
C38_ExpiryNotBeforeRegistration ==
    \A i \in Inserted :
       /\ Val(order_list[i]).het_han # None
       /\ Val(Val(order_list[i]).het_han) >= Val(Val(order_list[i]).ngay_dang_ki)

\* the same for the inserted orders whose duration is not 0 days
C38_ExpiryNotBeforeRegistrationIfDuration ==
    \A i \in Inserted :
       Val(order_list[i]).so_ngay > 0
       => /\ Val(order_list[i]).het_han # None
          /\ Val(Val(order_list[i]).het_han) >= Val(Val(order_list[i]).ngay_dang_ki)

====
